---- MODULE Spec2Model ----
(***************************************************************************)
(* Control core of the 3-D RTS interaction scheme: the InputSystem         *)
(* (src/src/systems/input.js and its edge-scrolling variant                *)
(* src/unnamed/part_000), driven by DOM events and engine ticks.           *)
(*                                                                         *)
(* The whole InputSystem object, together with the collaborators it        *)
(* writes (controls.enabled, camera.position, the selection sphere, the    *)
(* units' selected flags, the commands emitted on the bus), is one record  *)
(* `st`.  Every handler of the class is an operator from (state, event) to *)
(* state, so that one action of the model is one whole handler call.       *)
(*                                                                         *)
(* Conventions                                                             *)
(*   - a nullable / possibly-undefined JS value is a sequence: <<>> is     *)
(*     null/undefined, <<v>> is the value v;                               *)
(*   - a Euclidean distance is carried by its square (an integer n stands  *)
(*     for sqrt(n)); sqrt is strictly monotone, so `d <= r` on distances   *)
(*     is `<=` on the squares;                                             *)
(*   - pixel coordinates are integers; heights are in units of 1 world     *)
(*     unit and one wheel notch (deltaY = +-50) is 1 unit (50 * 0.02);     *)
(*   - NDC values are carried in units of 2/RectW (one locked-mode pixel). *)
(*   - camera translations (sin/cos of the orbit angles, the pan scale)    *)
(*     are real-valued in the code; the event carries the resulting        *)
(*     horizontal step, drawn from a small set of grid vectors.            *)
(***************************************************************************)
EXTENDS Integers, Sequences, FiniteSets, TLC

VARIABLES st, gh

vars == <<st, gh>>

(*************************** bounds and constants **************************)
MaxCoord == 1            \* ground coordinates of cursor hits: 0..MaxCoord
MaxH == 1                \* cursor height range: 0..MaxH
MaxCam == 1              \* camera x range: 0..MaxCam
NdcCap == 5              \* |accumulated NDC| cap (variant without clamping)

DragThreshold == 5       \* this._dragThreshold
EdgeThreshold == 20      \* this._edgeThreshold (pixels)
WinW == 100              \* window.innerWidth
WinH == 100              \* window.innerHeight
RectW == 4               \* canvas.getBoundingClientRect().width (locked mode)
NdcOne == RectW \div 2   \* NDC 1.0 in model units

None == <<>>
Some(v) == <<v>>
IsSome(o) == Len(o) > 0
Val(o) == o[1]

Coord == 0..MaxCoord
Heights == 0..MaxH
\* ground hits <<x, z>>: along the line z = 0
GroundPts == {<<x, 0>> : x \in Coord}
Hits == {None} \cup {Some(p) : p \in GroundPts}

\* pointer positions in pixels: one inside the left edge band (x < 20), one
\* 2 px from it (below the drag threshold), one 5 px from it (3-4-5: exactly
\* the threshold)
ClientPts == {<<18, 50>>, <<20, 50>>, <<21, 54>>}
\* clientX/clientY do not change while the pointer is locked
LockedClient == <<20, 50>>
\* locked-mode movement deltas (movementX, movementY)
Movements == {<<1, 0>>, <<2, 0>>, <<5, 0>>, <<-2, 0>>}
NoMovement == <<0, 0>>
\* horizontal camera steps (x, z)
CamSteps == {<<0, 0>>, <<1, 0>>, <<-1, 0>>}
Buttons == {0, 2}
ButtonMasks == {0, 1, 2, 3}
WheelDeltas == {-50, 50}
DtVals == {0, 17}        \* frame delta in ms (the engine caps it at 50)

\* the units of the registry: id -> position <<x, y, z>>
UnitPos == [u1 |-> <<1, 0, 0>>, u2 |-> <<0, 1, 1>>]
UnitIds == DOMAIN UnitPos

Abs(n) == IF n < 0 THEN -n ELSE n
Clamp(v, lo, hi) == IF v < lo THEN lo ELSE IF v > hi THEN hi ELSE v

\* THREE.Vector3.distanceTo, carried by its square
distanceTo(a, b) ==
  (a[1] - b[1]) * (a[1] - b[1]) + (a[2] - b[2]) * (a[2] - b[2])
    + (a[3] - b[3]) * (a[3] - b[3])

\* this.cursor with its height channel: (cursor.x, cursorHeight, cursor.z)
CursorPoint(w) == <<w.cursor[1], w.cursorHeight, w.cursor[2]>>

(******************************* events ************************************)
\* camera.getWorldDirection flattened to XZ: looking along -z, +z, straight down
Dirs == {<<0, -1>>, <<0, 1>>, <<0, 0>>}
\* world.project(camera) of the cursor when pointer lock is requested
NdcPts == {<<0, 0>>}
EdgeThresholdNDC == 98   \* this._edgeThresholdNDC (0.98), in hundredths
EdgeScrollSpeed == 60    \* this._edgeScrollSpeed, world units per second

(*************************** InputSystem state *****************************)
\* constructor: the state after `new InputSystem(...)`
InitState(edge, sel) ==
  [ edge |-> edge,                       \* TRUE: part_000 (edge scrolling)
    cursor |-> <<0, 0>>, cursorHeight |-> 0,
    isSelecting |-> FALSE, selectCenter |-> <<0, 0, 0>>, selectRadius |-> 0,
    cameraInteracting |-> FALSE, _cameraCursorOffset |-> <<0, 0>>,
    _heightLock |-> None,
    _rmbDown |-> FALSE, _rmbStart |-> <<0, 0>>, _rmbDragged |-> FALSE,
    _mouse |-> <<WinW \div 2, WinH \div 2>>, _isEdgeScrolling |-> FALSE,
    _suppressRmbClick |-> FALSE, _blockSelectionUntilPointerUp |-> FALSE,
    pointerLocked |-> FALSE, _ndc |-> <<0, 0>>,
    _rotateActive |-> FALSE, _controlsPrevEnabled |-> None,
    controls_enabled |-> TRUE, camera |-> <<0, 0>>,
    targetH |-> 0,                       \* controls.target.y
    _rotateTargetH |-> 0,                \* this._rotateTarget.y
    sphereVisible |-> FALSE,
    selected |-> sel,
    emitted |-> <<>> ]

(****************************** handlers ***********************************)
\* the three lines every gesture start repeats (input.js 210-212, 226-228,
\* 100-102): hold the cursor at camera.position + offset, lock the height
\* a variant that locks the height at the initial height instead of the
\* cursor's current height
beginCameraInteraction_zeroLock(w) ==
  [w EXCEPT !.cameraInteracting = TRUE,
            !._cameraCursorOffset =
               <<w.cursor[1] - w.camera[1], w.cursor[2] - w.camera[2]>>,
            !._heightLock = Some(0)]

beginCameraInteraction(w) ==
  [w EXCEPT !.cameraInteracting = TRUE,
            !._cameraCursorOffset =
               <<w.cursor[1] - w.camera[1], w.cursor[2] - w.camera[2]>>,
            !._heightLock = Some(w.cursorHeight)]

\* controls 'start' listener
onControlsStart(w) == beginCameraInteraction(w)

\* controls 'end' listener
onControlsEnd(w) ==
  [w EXCEPT !.cameraInteracting = FALSE, !._heightLock = None]

\* a variant of onWheel that leaves the height lock as it was
onWheel_lockUntouched(w, deltaY) ==
  LET dH == (0 - deltaY) \div 50
  IN [w EXCEPT !.cursorHeight = w.cursorHeight + dH,
               !.targetH = w.targetH + dH]

onWheel(w, deltaY) ==
  LET dH == (0 - deltaY) \div 50      \* -delta * elevSensitivity (0.02)
  IN [w EXCEPT !.cursorHeight = w.cursorHeight + dH,
               !.targetH = w.targetH + dH,
               !._heightLock = IF IsSome(w._heightLock)
                                 THEN Some(Val(w._heightLock) + dH)
                                 ELSE None]

onPointerDownCapture(w, e) ==
  IF e.button = 2 /\ e.ctrlKey
  THEN LET w1 == [w EXCEPT !._rotateTargetH = w.targetH,
                           !._rotateActive = TRUE,
                           !._suppressRmbClick = TRUE,
                           !._blockSelectionUntilPointerUp = TRUE]
           w2 == IF ~w1.cameraInteracting THEN beginCameraInteraction(w1)
                 ELSE w1
       IN [w2 EXCEPT !._controlsPrevEnabled = Some(w2.controls_enabled),
                     !.controls_enabled = FALSE]
  ELSE IF e.button = 2 /\ ~e.ctrlKey /\ w.pointerLocked
  THEN LET w1 == IF ~w.cameraInteracting THEN beginCameraInteraction(w)
                 ELSE w
       IN [w1 EXCEPT !._rmbDown = TRUE, !._rmbDragged = FALSE]
  ELSE w

\* the branch of onPointerUp that ends a manual rotation (both variants)
endRotate(w) ==
  LET w1 == IF IsSome(w._controlsPrevEnabled)
            THEN [w EXCEPT !.controls_enabled = Val(w._controlsPrevEnabled),
                           !._controlsPrevEnabled = None]
            ELSE w
  IN [w1 EXCEPT !._rotateActive = FALSE,
                !.cameraInteracting = FALSE,
                !._heightLock = None,
                !._blockSelectionUntilPointerUp = FALSE,
                !._suppressRmbClick = TRUE,
                !._rmbDown = FALSE,
                !._rmbDragged = FALSE]

\* commandBus.emit(CMD.MOVE_SELECTED_TO, {target}) with target the cursor point
emitMoveSelectedTo(w) ==
  [w EXCEPT !.emitted = Append(w.emitted, CursorPoint(w))]

onPointerUp_base(w, e) ==
  IF e.button = 2 /\ w._rotateActive THEN endRotate(w)
  ELSE IF e.button = 2 /\ w.pointerLocked
  THEN [w EXCEPT !.cameraInteracting = FALSE, !._heightLock = None,
                 !._rmbDown = FALSE, !._rmbDragged = FALSE]
  ELSE w

onPointerUp_edge(w, e) ==
  IF e.button = 2 /\ w._rotateActive THEN endRotate(w)
  ELSE IF e.button = 2 /\ w.pointerLocked
  THEN LET w1 == IF ~w._rmbDragged /\ ~w._suppressRmbClick
                 THEN emitMoveSelectedTo(w) ELSE w
       IN [w1 EXCEPT !.cameraInteracting = FALSE, !._heightLock = None,
                     !._rmbDown = FALSE, !._rmbDragged = FALSE,
                     !._suppressRmbClick = FALSE]
  ELSE w

onPointerUp(w, e) ==
  IF w.edge THEN onPointerUp_edge(w, e) ELSE onPointerUp_base(w, e)

\* part_000 only: remember the pointer position for edge scrolling
trackMouse(w, e) ==
  IF w.edge /\ ~w.pointerLocked THEN [w EXCEPT !._mouse = e.client] ELSE w

\* camera.position.add(move), controls.target.add(move)
moveCamera(w, step) ==
  [w EXCEPT !.camera = <<w.camera[1] + step[1], w.camera[2] + step[2]>>]

\* the manual-rotate branch of onPointerMove: the camera is placed on the
\* sphere around this._rotateTarget and controls.target is copied from it
rotateCamera(w, step) ==
  [moveCamera(w, step) EXCEPT !.targetH = w._rotateTargetH]

onPointerMove_base(w, e) ==
  IF w._rotateActive THEN rotateCamera(w, e.step)
  ELSE IF w.pointerLocked /\ w._rmbDown THEN moveCamera(w, e.step)
  ELSE w

onPointerMove_edge(w, e) ==
  LET w0 == trackMouse(w, e)
      dx == e.movement[1]
      dy == e.movement[2]
  IN IF w0._rotateActive THEN rotateCamera(w0, e.step)
     ELSE IF w0.pointerLocked /\ w0._rmbDown
     THEN LET w1 == IF Abs(dx) > 1 \/ Abs(dy) > 1
                    THEN [w0 EXCEPT !._rmbDragged = TRUE] ELSE w0
          IN moveCamera(w1, e.step)
     ELSE w0

onPointerMove(w, e) ==
  IF w.edge THEN onPointerMove_edge(w, e) ELSE onPointerMove_base(w, e)

\* togglePointerLock, reached from onKeyDown for 'l' / 'L'
togglePointerLock(w, ndc) ==
  IF ~w.pointerLocked THEN [w EXCEPT !._ndc = ndc] ELSE w

_onPointerLockChange(w, locked) == [w EXCEPT !.pointerLocked = locked]

\* the guard of the selection-start branch of onMouseDown
startsSelection(w, e) ==
  /\ e.button = 0
  /\ ~(w._blockSelectionUntilPointerUp \/ e.ctrlKey)
  /\ e.buttons % 2 = 1                  \* (e.buttons & 1) === 1

\* variant for C8: the center taken from the ground cursor, without the
\* height channel
onMouseDown_groundCenter(w, e) ==
  LET w0 == IF w.edge THEN [w EXCEPT !._mouse = e.client] ELSE w
  IN IF e.button = 0
     THEN IF startsSelection(w0, e)
          THEN [w0 EXCEPT !.isSelecting = TRUE,
                          !.selectCenter = <<w0.cursor[1], 0, w0.cursor[2]>>,
                          !.selectRadius = 0,
                          !.controls_enabled = FALSE,
                          !.sphereVisible = TRUE]
          ELSE w0
     ELSE IF e.button = 2
     THEN [w0 EXCEPT !._rmbDown = TRUE, !._rmbStart = e.client,
                     !._rmbDragged = FALSE]
     ELSE w0

onMouseDown(w, e) ==
  LET w0 == IF w.edge THEN [w EXCEPT !._mouse = e.client] ELSE w
  IN IF e.button = 0
     THEN IF startsSelection(w0, e)
          THEN [w0 EXCEPT !.isSelecting = TRUE,
                          !.selectCenter = CursorPoint(w0),
                          !.selectRadius = 0,
                          !.controls_enabled = FALSE,
                          !.sphereVisible = TRUE]
          ELSE w0
     ELSE IF e.button = 2
     THEN [w0 EXCEPT !._rmbDown = TRUE, !._rmbStart = e.client,
                     !._rmbDragged = FALSE]
     ELSE w0

\* absolute-position drag classification: squared displacement from the
\* press position against the squared threshold
movedBeyondThreshold(w, e) ==
  LET dx == e.client[1] - w._rmbStart[1]
      dy == e.client[2] - w._rmbStart[2]
  IN dx * dx + dy * dy >= DragThreshold * DragThreshold

\* locked mode (input.js): Math.hypot(movementX, movementY) >= threshold
movementBeyondThreshold(e) ==
  e.movement[1] * e.movement[1] + e.movement[2] * e.movement[2]
    >= DragThreshold * DragThreshold

\* the part of onMouseMove after the cameraInteracting early return
\* a variant that sends the cursor to the origin when the ray misses the plane
moveCursor_originOnMiss(w, e, clampNdc) ==
  LET w2 == [w EXCEPT !.cursor = IF IsSome(e.hit) THEN Val(e.hit) ELSE <<0, 0>>]
  IN IF w2.isSelecting
     THEN [w2 EXCEPT !.selectRadius = distanceTo(CursorPoint(w2), w2.selectCenter),
                     !.sphereVisible = TRUE]
     ELSE w2

moveCursor(w, e, clampNdc) ==
  LET nx == w._ndc[1] + e.movement[1]       \* movementX * (2 / rect.width)
      ny == w._ndc[2] - e.movement[2]
      w1 == IF w.pointerLocked
            THEN [w EXCEPT !._ndc =
                    IF clampNdc
                    THEN <<Clamp(nx, -NdcOne, NdcOne), Clamp(ny, -NdcOne, NdcOne)>>
                    ELSE <<nx, ny>>]
            ELSE w
      w2 == IF IsSome(e.hit) THEN [w1 EXCEPT !.cursor = Val(e.hit)] ELSE w1
  IN IF w2.isSelecting
     THEN [w2 EXCEPT !.selectRadius = distanceTo(CursorPoint(w2), w2.selectCenter),
                     !.sphereVisible = TRUE]
     ELSE w2

onMouseMove_base(w, e) ==
  LET w1 == IF w._rmbDown /\ ~w._rmbDragged
               /\ (IF w.pointerLocked THEN movementBeyondThreshold(e)
                   ELSE movedBeyondThreshold(w, e))
            THEN [w EXCEPT !._rmbDragged = TRUE] ELSE w
  IN IF w1.cameraInteracting THEN w1 ELSE moveCursor(w1, e, FALSE)

onMouseMove_edge(w, e) ==
  LET w0 == trackMouse(w, e)
      w1 == IF w0._rmbDown /\ ~w0._rmbDragged /\ ~w0.pointerLocked
               /\ movedBeyondThreshold(w0, e)
            THEN [w0 EXCEPT !._rmbDragged = TRUE] ELSE w0
  IN IF w1.cameraInteracting THEN w1 ELSE moveCursor(w1, e, TRUE)

onMouseMove(w, e) ==
  IF w.edge THEN onMouseMove_edge(w, e) ELSE onMouseMove_base(w, e)

\* variant for C7: the boundary excluded
insideSphere_strict(w, u) ==
  distanceTo(UnitPos[u], w.selectCenter) < w.selectRadius

\* `d <= this.selectRadius` for one unit
insideSphere(w, u) == distanceTo(UnitPos[u], w.selectCenter) <= w.selectRadius

\* the selection-end branch of onMouseUp
finalizeSelection(w) ==
  [w EXCEPT !.isSelecting = FALSE,
            !.controls_enabled = TRUE,
            !.sphereVisible = FALSE,
            !.selected = [u \in UnitIds |-> insideSphere(w, u)]]

\* the right-button branch of onMouseUp: click (no drag) issues the move
releaseRmb(w, e) ==
  LET w1 == IF ~w._rmbDragged /\ ~e.ctrlKey /\ ~w._suppressRmbClick
            THEN emitMoveSelectedTo(w) ELSE w
  IN [w1 EXCEPT !._rmbDown = FALSE, !._rmbDragged = FALSE,
                !._suppressRmbClick = FALSE,
                !._blockSelectionUntilPointerUp = FALSE]

onMouseUp(w, e) ==
  LET w1 == IF w.isSelecting /\ e.button = 0 THEN finalizeSelection(w) ELSE w
  IN IF e.button = 2 /\ w1._rmbDown THEN releaseRmb(w1, e) ELSE w1

\* a variant of the mouseleave listener that clears every selected flag
_onMouseLeave_deselects(w, e) ==
  [onMouseUp(w, e) EXCEPT !.selected = [u \in UnitIds |-> FALSE]]

\* the 'mouseleave' listener: onMouseUp itself in input.js; part_000 also
\* recentres the remembered pointer and stops edge scrolling
_onMouseLeave(w, e) ==
  LET w1 == onMouseUp(w, e)
  IN IF w.edge
     THEN [w1 EXCEPT !._mouse = <<WinW \div 2, WinH \div 2>>,
                     !._isEdgeScrolling = FALSE]
     ELSE w1

\* which edge the pointer is at: <<moveX, moveZ>>
edgeDirection(w) ==
  IF w.pointerLocked
  THEN LET th == EdgeThresholdNDC * NdcOne     \* 0.98, in hundredths
       IN <<IF 100 * w._ndc[1] < -th THEN -1
            ELSE IF 100 * w._ndc[1] > th THEN 1 ELSE 0,
            IF 100 * w._ndc[2] > th THEN -1
            ELSE IF 100 * w._ndc[2] < -th THEN 1 ELSE 0>>
  ELSE <<IF w._mouse[1] < EdgeThreshold THEN -1
         ELSE IF w._mouse[1] > WinW - EdgeThreshold THEN 1 ELSE 0,
         IF w._mouse[2] < EdgeThreshold THEN -1
         ELSE IF w._mouse[2] > WinH - EdgeThreshold THEN 1 ELSE 0>>

\* dir = forward * -moveZ + right * moveX, right = forward x up = (-fz, fx)
edgeMove(fwd, m, dt) ==
  LET dist == (EdgeScrollSpeed * dt) \div 1000     \* dt in ms, whole units
  IN <<(fwd[1] * (0 - m[2]) + (0 - fwd[2]) * m[1]) * dist,
       (fwd[2] * (0 - m[2]) + fwd[1] * m[1]) * dist>>

_handleEdgeScrolling(w, dt, fwd) ==
  IF w._rmbDown \/ w._rotateActive \/ dt = 0
  THEN [w EXCEPT !._isEdgeScrolling = FALSE]
  ELSE LET m == edgeDirection(w)
       IN IF m = <<0, 0>>
          THEN [w EXCEPT !._isEdgeScrolling = FALSE]
          ELSE moveCamera([w EXCEPT !._isEdgeScrolling = TRUE],
                          edgeMove(fwd, m, dt))

\* update(): the cursor is held at camera.position + offset while the camera
\* is interacting
\* a variant of update() that leaves the cursor where it was
holdCursor_still(w) == w

holdCursor(w) ==
  IF w.cameraInteracting
  THEN [w EXCEPT !.cursor = <<w.camera[1] + w._cameraCursorOffset[1],
                              w.camera[2] + w._cameraCursorOffset[2]>>,
                 !.cursorHeight = IF IsSome(w._heightLock)
                                  THEN Val(w._heightLock) ELSE w.cursorHeight]
  ELSE w

update(w, dt, fwd) ==
  holdCursor(IF w.edge THEN _handleEdgeScrolling(w, dt, fwd) ELSE w)

(************************ observation of the run ***************************)
\* `gh` records the history the properties below speak about; no handler
\* reads it.  gh.watch names what the specification at hand observes.
NoSelection == [u \in UnitIds |-> FALSE]

InitGhost(watch) ==
  [watch |-> watch,
   \* gestures: controls.enabled before the pointerdown that began the rotate
   rotEnabledBefore |-> None,
   \* gestures: the last call was a primary-button mousedown with another
   \* button in e.buttons, delivered while no selection was in progress
   chordedDown |-> FALSE,
   left |-> FALSE,                \* gestures: the last call was a mouseleave
   \* gestures: controls.enabled before the mousedown that began the selection
   selEnabledBefore |-> None,
   \* selection: what the last handler call did
   selStarted |-> FALSE,          \* it took the selection-start branch
   selEnded |-> FALSE,            \* it ended a selection
   cursorMoved |-> FALSE,         \* it moved the cursor point of a selection
   startCenter |-> None,          \* cursor point at the latest selection start
   firstCenter |-> None,          \* cursor point when isSelecting became true
   prevSelected |-> NoSelection,  \* selected flags before the selection end
   \* clicks: the right-button interaction in progress or just released
   rmb |-> "up",                  \* up | plain | rotate | released
   rmbWasPlain |-> FALSE,         \* the released press was without Ctrl
   rmbDrag |-> FALSE,             \* _rmbDragged seen between press and release
   rmbEmits |-> 0,                \* commands emitted by the release
   rmbTargetOk |-> TRUE,          \* each of them targets the cursor point
   rotateEndedNow |-> FALSE,      \* the release ended a manual rotate
   afterRotate |-> FALSE,         \* a rotate ended, no plain click since
   orbit |-> FALSE,               \* OrbitControls is between 'start' and 'end'
   \* cursor: the last handler call and what it did to the cursor
   last |-> "none",               \* its event kind
   heightSum |-> 0,               \* sum of the height deltas of the wheel events
   hitNone |-> FALSE,             \* a mousemove whose ground hit was none
   ignoredHit |-> FALSE,          \* the camera is interacting and a mousemove
                                  \* with a ground hit elsewhere was delivered
                                  \* since it began
   heldMoved |-> FALSE,           \* a tick that moved the held cursor
   \* edge: the frame delta of the last call, if it was a tick
   dt |-> 0]

ObserveGesture(kind, e, pre, post, g) ==
  [g EXCEPT
     !.rotEnabledBefore =
        IF ~pre._rotateActive /\ post._rotateActive THEN Some(pre.controls_enabled)
        ELSE IF post._rotateActive \/ pre._rotateActive THEN g.rotEnabledBefore
        ELSE None,
     !.chordedDown = /\ kind = "mousedown"
                     /\ e.button = 0
                     /\ e.buttons \div 2 > 0
                     /\ ~pre.isSelecting,
     !.left = kind = "mouseleave",
     !.selEnabledBefore =
        IF ~pre.isSelecting /\ post.isSelecting THEN Some(pre.controls_enabled)
        ELSE IF post.isSelecting \/ pre.isSelecting THEN g.selEnabledBefore
        ELSE None]

ObserveSelection(kind, e, pre, post, g) ==
  LET started == kind = "mousedown" /\ startsSelection(pre, e)
      ended == pre.isSelecting /\ ~post.isSelecting
      point == <<pre.cursor[1], pre.cursorHeight, pre.cursor[2]>>
  IN [g EXCEPT
        !.selStarted = started,
        !.selEnded = ended,
        !.cursorMoved = pre.isSelecting /\ post.isSelecting /\ ~started
                          /\ <<pre.cursor, pre.cursorHeight>>
                               # <<post.cursor, post.cursorHeight>>,
        !.startCenter = IF started THEN Some(point)
                        ELSE IF post.isSelecting THEN g.startCenter ELSE None,
        !.firstCenter = IF started /\ ~pre.isSelecting THEN Some(point)
                        ELSE IF post.isSelecting THEN g.firstCenter ELSE None,
        !.prevSelected = IF ended THEN pre.selected ELSE NoSelection]

\* the state after a release is observed for one step only
Settle(g) ==
  IF g.rmb = "released"
  THEN [g EXCEPT !.rmb = "up", !.rmbWasPlain = FALSE, !.rmbDrag = FALSE,
                 !.rmbEmits = 0, !.rmbTargetOk = TRUE,
                 !.rotateEndedNow = FALSE,
                 !.afterRotate = IF g.rmbWasPlain THEN FALSE ELSE @]
  ELSE g

\* any event between a press and its release: was a drag classified?
ObserveClick(kind, post, g) ==
  LET g0 == Settle(g)
  IN [g0 EXCEPT !.rmbDrag = @ \/ (g0.rmb = "plain" /\ post._rmbDragged),
                !.orbit = IF kind = "orbitstart" THEN TRUE
                          ELSE IF kind = "orbitend" THEN FALSE ELSE @]

\* the wheel event of the model: deltaY besides the fields every event has
WheelEvent(d) == [button |-> 1, ctrlKey |-> FALSE, buttons |-> 0, deltaY |-> d]

ObserveCursor(kind, e, pre, post, g) ==
  [g EXCEPT
     !.last = kind,
     !.heightSum = IF kind = "wheel" THEN @ + (0 - e.deltaY) \div 50 ELSE @,
     !.hitNone = kind = "mousemove" /\ e.hit = None,
     !.ignoredHit = /\ post.cameraInteracting
                    /\ \/ @
                       \/ /\ kind = "mousemove"
                          /\ pre.cameraInteracting
                          /\ IsSome(e.hit)
                          /\ Val(e.hit) # pre.cursor,
     !.heldMoved = /\ kind = "tick"
                   /\ post.cameraInteracting
                   /\ post.cursor # pre.cursor]

\* the tick of the model: the frame delta and the camera's forward direction
TickEvent(dt, fwd) ==
  [button |-> 1, ctrlKey |-> FALSE, buttons |-> 0, dt |-> dt, fwd |-> fwd]

ObserveEdge(kind, e, g) ==
  [g EXCEPT !.last = kind,
            !.dt = IF kind = "tick" THEN e.dt ELSE 0]

Observe(kind, e, pre, post, g) ==
  CASE g.watch = "gesture" -> ObserveGesture(kind, e, pre, post, g)
    [] g.watch = "selection" -> ObserveSelection(kind, e, pre, post, g)
    [] g.watch = "click" -> ObserveClick(kind, post, g)
    [] g.watch = "cursor" -> ObserveCursor(kind, e, pre, post, g)
    [] g.watch = "edge" -> ObserveEdge(kind, e, g)
    [] OTHER -> g

(******************************* actions ***********************************)
InBounds(w) ==
  /\ w.cursorHeight \in Heights
  /\ w.cursor \in GroundPts
  /\ IsSome(w._heightLock) => Val(w._heightLock) \in Heights
  /\ w.camera[1] \in 0..MaxCam /\ w.camera[2] \in 0..MaxCam
  /\ w.targetH \in Heights /\ w._rotateTargetH \in Heights
  /\ Abs(w._ndc[1]) <= NdcCap /\ Abs(w._ndc[2]) <= NdcCap

\* one handler call: the commands it emits are those of this call only
Fresh(w) == [w EXCEPT !.emitted = <<>>]

Deliver(kind, e, post) ==
  /\ InBounds(post)
  /\ st' = post
  /\ gh' = Observe(kind, e, st, post, gh)

NoKeys == [button |-> 1, ctrlKey |-> FALSE, buttons |-> 0]

\* the position and movement a move event can carry: clientX/Y are frozen
\* and movementX/Y free under pointer lock, and the other way round without
PositionsOf(pts) == IF st.pointerLocked THEN {LockedClient} ELSE pts
DeltasOf(mvs) == IF st.pointerLocked THEN mvs ELSE {NoMovement}

PointerDown(buttons) ==
  \E e \in [button : buttons, ctrlKey : BOOLEAN] :
    Deliver("pointerdown", e, onPointerDownCapture(Fresh(st), e))

PointerUp(buttons) ==
  \E e \in [button : buttons, ctrlKey : BOOLEAN] :
    Deliver("pointerup", e, onPointerUp(Fresh(st), e))

PointerMove(pts, mvs, steps) ==
  \E e \in [button : {1}, ctrlKey : {FALSE}, client : PositionsOf(pts),
            movement : DeltasOf(mvs), step : steps] :
    Deliver("pointermove", e, onPointerMove(Fresh(st), e))

\* e.buttons of a mousedown holds the bit of the button that went down
\* (1 for the primary, 2 for the secondary button) and of any other held
MasksOf(button) == {m \in ButtonMasks : (m \div (IF button = 0 THEN 1 ELSE 2)) % 2 = 1}

MouseDown(buttons, pts) ==
  \E b \in buttons :
    \E e \in [button : {b}, buttons : MasksOf(b), ctrlKey : BOOLEAN,
              client : PositionsOf(pts)] :
      Deliver("mousedown", e, onMouseDown(Fresh(st), e))

MouseMove(pts, mvs, hits) ==
  \E e \in [button : {1}, ctrlKey : {FALSE}, client : PositionsOf(pts),
            movement : DeltasOf(mvs), hit : hits] :
    Deliver("mousemove", e, onMouseMove(Fresh(st), e))

MouseUp(buttons) ==
  \E e \in [button : buttons, ctrlKey : BOOLEAN] :
    Deliver("mouseup", e, onMouseUp(Fresh(st), e))

\* a mouseleave event carries button 0
MouseLeave ==
  \E e \in [button : {0}, ctrlKey : BOOLEAN] :
    Deliver("mouseleave", e, _onMouseLeave(Fresh(st), e))

Wheel(deltas) ==
  \E d \in deltas :
    Deliver("wheel", WheelEvent(d), onWheel(Fresh(st), d))

KeyDownL ==
  \E ndc \in NdcPts :
    Deliver("keydown", NoKeys, togglePointerLock(Fresh(st), ndc))

PointerLockChange(outcomes) ==
  \E b \in outcomes :
    Deliver("pointerlockchange", NoKeys, _onPointerLockChange(Fresh(st), b))

\* OrbitControls dispatches 'start' only while it is enabled
ControlsStart ==
  /\ st.controls_enabled
  /\ Deliver("orbitstart", NoKeys, onControlsStart(Fresh(st)))

ControlsEnd ==
  Deliver("orbitend", NoKeys, onControlsEnd(Fresh(st)))

\* OrbitControls pans or orbits the camera during its own interaction
ControlsMove(steps) ==
  /\ st.controls_enabled /\ st.cameraInteracting
  /\ \E step \in steps \ {<<0, 0>>} :
       Deliver("orbit", NoKeys, moveCamera(Fresh(st), step))

Tick(dirs) ==
  \E dt \in DtVals, fwd \in dirs :
    Deliver("tick", NoKeys, update(Fresh(st), dt, fwd))

\* a tick whose frame delta and forward direction are observed
TickAt(dts, dirs) ==
  \E dt \in dts, fwd \in dirs :
    Deliver("tick", TickEvent(dt, fwd), update(Fresh(st), dt, fwd))

(***************************************************************************)
(* Spec: every handler, called in any order with any button and modifier.  *)
(* The gestures are explored over a fixed cursor (no ground hit, no height *)
(* change) and one pointer position, inside the left edge band.           *)
(***************************************************************************)
GesturePts == {<<18, 50>>}
GestureMoves == {<<5, 0>>}

Init ==
  /\ \E edge \in BOOLEAN : st = InitState(edge, NoSelection)
  /\ gh = InitGhost("gesture")

Next ==
  \/ PointerDown(Buttons) \/ PointerUp(Buttons)
  \/ PointerMove(GesturePts, GestureMoves, {<<0, 0>>})
  \/ MouseDown(Buttons, GesturePts)
  \/ MouseMove(GesturePts, GestureMoves, {None})
  \/ MouseUp(Buttons) \/ MouseLeave
  \/ Wheel({0}) \/ KeyDownL \/ PointerLockChange(BOOLEAN)
  \/ ControlsStart \/ ControlsEnd
  \/ Tick({<<0, 0>>})

Spec == Init /\ [][Next]_vars

(***************************************************************************)
(* SpecSel: the volumetric selection over a moving cursor: left button,    *)
(* manual rotate, orbit interaction, wheel, ticks; no plain right-button   *)
(* press and no pointer lock.                                              *)
(***************************************************************************)
InitSel ==
  /\ \E edge \in BOOLEAN : st = InitState(edge, NoSelection)
  /\ gh = InitGhost("selection")

RotateDown ==
  \E e \in [button : {2}, ctrlKey : {TRUE}] :
    Deliver("pointerdown", e, onPointerDownCapture(Fresh(st), e))

NextSel ==
  \/ RotateDown \/ PointerUp({2})
  \/ PointerMove({LockedClient}, {NoMovement}, CamSteps)
  \/ MouseDown({0}, {LockedClient})
  \/ MouseMove({LockedClient}, {NoMovement}, Hits)
  \/ MouseUp({0}) \/ MouseLeave
  \/ Wheel(WheelDeltas)
  \/ ControlsStart \/ ControlsEnd \/ ControlsMove(CamSteps)
  \/ Tick({<<0, 0>>})

SpecSel == InitSel /\ [][NextSel]_vars

\* ---- every kind of event around the selected flags ----

InitFlag ==
  /\ st = InitState(FALSE, NoSelection)
  /\ gh = InitGhost("cursor")

\* ground hits of the pointer: on the first unit and one length beside it
FlagHits == {Some(<<0, 0>>), Some(<<1, 0>>)}

NextFlag ==
  \/ PointerDown({2}) \/ PointerUp({2})
  \/ MouseDown({0, 2}, {LockedClient})
  \/ MouseMove({LockedClient}, {NoMovement}, FlagHits)
  \/ MouseUp({0, 2}) \/ MouseLeave
  \/ Wheel({-50})
  \/ ControlsStart \/ ControlsEnd
  \/ Tick({<<0, 0>>})

SpecFlag == InitFlag /\ [][NextFlag]_vars

(***************************************************************************)
(* SpecVol: the selection sphere from press to release with the camera at  *)
(* rest: the events of SpecSel without the manual rotate and the camera    *)
(* translations, so that the cursor and the height range can be widened.   *)
(***************************************************************************)
NextVol ==
  \/ MouseDown({0}, {LockedClient})
  \/ MouseMove({LockedClient}, {NoMovement}, Hits)
  \/ MouseUp({0}) \/ MouseLeave
  \/ Wheel(WheelDeltas)
  \/ ControlsStart \/ ControlsEnd
  \/ Tick({<<0, 0>>})

SpecVol == InitSel /\ [][NextVol]_vars

(***************************************************************************)
(* SpecHeight: the height channel across mode switches: wheel events       *)
(* interleaved with manual rotate, locked pan, selection, orbit            *)
(* interaction, pointer lock changes and ticks, over a cursor whose ground *)
(* position is fixed and a camera at rest.                                 *)
(***************************************************************************)
InitCur ==
  /\ \E edge \in BOOLEAN : st = InitState(edge, NoSelection)
  /\ gh = InitGhost("cursor")

NextHeight ==
  \/ PointerDown({2}) \/ PointerUp({2})
  \/ MouseDown({0}, {LockedClient})
  \/ MouseMove({LockedClient}, {NoMovement}, {None})
  \/ MouseUp({0})
  \/ Wheel(WheelDeltas)
  \/ PointerLockChange(BOOLEAN)
  \/ ControlsStart \/ ControlsEnd
  \/ Tick({<<0, 0>>})

SpecHeight == InitCur /\ [][NextHeight]_vars

(***************************************************************************)
(* SpecCur: the cursor on the ground plane while the camera moves: manual  *)
(* rotate, locked pan and orbit interaction with camera translations,      *)
(* mouse moves with every ground hit (or none), pointer lock changes and   *)
(* ticks, at a fixed cursor height and without selection.                  *)
(***************************************************************************)
NextCur ==
  \/ PointerDown({2}) \/ PointerUp({2})
  \/ PointerMove({LockedClient}, {NoMovement}, CamSteps)
  \/ MouseMove({LockedClient}, {NoMovement}, Hits)
  \/ PointerLockChange(BOOLEAN)
  \/ ControlsStart \/ ControlsEnd \/ ControlsMove(CamSteps)
  \/ Tick({<<0, 0>>})

SpecCur == InitCur /\ [][NextCur]_vars

(***************************************************************************)
(* SpecDom: right-button interactions as the browser delivers them.  One   *)
(* action is one DOM event with every listener the constructor registered  *)
(* for it, in dispatch order: pointerdown reaches the capture listener on  *)
(* the document, then the one on the canvas; pointerup and pointermove     *)
(* bubble from the canvas to the document; the mouse event follows its     *)
(* pointer event.  A listener that calls stopPropagation ends the walk.    *)
(* After a pointerdown whose default was prevented (Ctrl + right button)   *)
(* a browser may withhold the compatibility mouse events.                  *)
(***************************************************************************)
dispatchPointerDown(w, e) ==
  LET w1 == onPointerDownCapture(w, e)
  IN IF e.button = 2 /\ e.ctrlKey THEN w1 ELSE onPointerDownCapture(w1, e)

dispatchPointerUp(w, e) ==
  LET w1 == onPointerUp(w, e)
  IN IF e.button = 2 /\ w._rotateActive THEN w1 ELSE onPointerUp(w1, e)

dispatchPointerMove(w, e) ==
  LET w1 == onPointerMove(w, e)
  IN IF w._rotateActive \/ (w.pointerLocked /\ w._rmbDown) THEN w1
     ELSE onPointerMove(w1, e)

\* locked-mode deltas: one below and one above both drag criteria
DomMoves == {<<1, 0>>, <<5, 0>>}
DomSteps == {<<0, 0>>, <<1, 0>>}
\* absolute positions: 5 px apart (3-4-5), exactly the drag threshold
DomPts == {<<18, 50>>, <<21, 54>>}

InitDom ==
  /\ \E edge \in BOOLEAN : st = InitState(edge, NoSelection)
  /\ gh = InitGhost("click")

RightPress ==
  /\ gh.rmb \in {"up", "released"}
  /\ \E ctrl \in BOOLEAN, compat \in BOOLEAN, pt \in PositionsOf(DomPts) :
       LET e == [button |-> 2, buttons |-> 2, ctrlKey |-> ctrl, client |-> pt]
           w1 == dispatchPointerDown(Fresh(st), e)
           w2 == IF ctrl /\ ~compat THEN w1 ELSE onMouseDown(w1, e)
       IN /\ InBounds(w2)
          /\ st' = w2
          /\ gh' = [Settle(gh) EXCEPT !.rmb = IF ctrl THEN "rotate" ELSE "plain",
                                      !.rmbDrag = FALSE]

RightRelease ==
  /\ gh.rmb \in {"plain", "rotate"}
  /\ \E ctrl \in BOOLEAN, compat \in BOOLEAN :
       LET e == [button |-> 2, buttons |-> 0, ctrlKey |-> ctrl]
           w1 == dispatchPointerUp(Fresh(st), e)
           w2 == IF gh.rmb = "rotate" /\ ~compat THEN w1 ELSE onMouseUp(w1, e)
       IN /\ InBounds(w2)
          /\ st' = w2
          /\ gh' = [gh EXCEPT
                      !.rmb = "released",
                      !.rmbWasPlain = gh.rmb = "plain" /\ ~ctrl,
                      !.rmbEmits = Len(w2.emitted),
                      !.rmbTargetOk =
                         \A i \in 1..Len(w2.emitted) :
                           w2.emitted[i]
                             = <<st.cursor[1], st.cursorHeight, st.cursor[2]>>,
                      !.rotateEndedNow = st._rotateActive /\ ~w2._rotateActive,
                      !.afterRotate =
                         @ \/ (st._rotateActive /\ ~w2._rotateActive)]

Motion ==
  \E e \in [button : {1}, ctrlKey : {FALSE}, client : PositionsOf(DomPts),
            movement : DeltasOf(DomMoves), hit : Hits, step : DomSteps],
     compat \in BOOLEAN :
    LET w1 == dispatchPointerMove(Fresh(st), e)
        w2 == IF gh.rmb = "rotate" /\ ~compat THEN w1 ELSE onMouseMove(w1, e)
    IN Deliver("move", e, w2)

NextDom ==
  \/ RightPress \/ RightRelease \/ Motion
  \/ Wheel({0}) \/ KeyDownL \/ PointerLockChange(BOOLEAN)
  \/ ControlsStart \/ ControlsEnd \/ ControlsMove(CamSteps)
  \/ Tick({<<0, 0>>})

SpecDom == InitDom /\ [][NextDom]_vars

(***************************************************************************)
(* SpecRay: raycastGroundPlane (src/src/systems/math.js) as a function of  *)
(* its arguments.  `st` holds the arguments and the result of the last     *)
(* call.  Arithmetic is exact: a real number is a fraction <<n, d>> in     *)
(* lowest terms with d > 0.  The components of the direction are integers  *)
(* in units of half the parallel tolerance (Epsilon = 1e-6 is 2 units, 1.0 *)
(* is DirOne units), so t is carried in the inverse unit and dir * t is    *)
(* free of it; origin components are integers.                             *)
(***************************************************************************)
RayMax == 5               \* |origin.y| <= RayMax, origin.x in 0..1
Epsilon == 2              \* 1e-6
DirOne == 1000000 * Epsilon

RECURSIVE Gcd(_, _)
Gcd(a, b) == IF b = 0 THEN a ELSE Gcd(b, a % b)

\* the fraction n / d (d # 0) in lowest terms with a positive denominator
Frac(n, d) ==
  LET g == Gcd(Abs(n), Abs(d))
      s == IF d < 0 THEN -1 ELSE 1
  IN <<(s * n) \div g, (s * d) \div g>>

\* a + b * f for integers a, b and a fraction f
AddScaled(a, b, f) == Frac(a * f[2] + b * f[1], f[2])

\* a variant without the test for an intersection behind the origin
raycastGroundPlane_noBehindTest(origin, dir) ==
  LET denom == dir[2]
  IN IF Abs(denom) < Epsilon THEN None
     ELSE LET t == Frac(0 - origin[2], denom)
          IN Some(<<AddScaled(origin[1], dir[1], t),
                    AddScaled(origin[2], dir[2], t),
                    AddScaled(origin[3], dir[3], t)>>)

raycastGroundPlane(origin, dir) ==
  LET denom == dir[2]                          \* dir.dot(UP)
  IN IF Abs(denom) < Epsilon THEN None
     ELSE LET t == Frac(0 - origin[2], denom)
          IN IF t[1] < 0 THEN None
             ELSE Some(<<AddScaled(origin[1], dir[1], t),
                         AddScaled(origin[2], dir[2], t),
                         AddScaled(origin[3], dir[3], t)>>)

RayOrigins == (0..1) \X ((0 - RayMax)..RayMax) \X {0}
RayDirs ==
  {0 - DirOne, 0, DirOne}
    \X {0 - DirOne, 0 - Epsilon, -1, 0, 1, Epsilon, DirOne}
    \X {0, DirOne}

InitRay ==
  /\ st = [origin |-> <<0, 0, 0>>, dir |-> <<0, 0, 0>>, hit |-> None]
  /\ gh = InitGhost("none")

Cast ==
  \E origin \in RayOrigins, dir \in RayDirs :
    /\ st' = [origin |-> origin, dir |-> dir,
              hit |-> raycastGroundPlane(origin, dir)]
    /\ UNCHANGED gh

SpecRay == InitRay /\ [][Cast]_vars

(***************************************************************************)
(* SpecPitch: the pitch of the manual rotate.  `st` holds _rotateActive,   *)
(* this._spherical.phi and the camera's polar angle about the orbit        *)
(* target; `gh` records whether the running gesture has seen a drag.       *)
(* Angles are integers in units of 0.0005 rad: eps = 0.001 is 2 units, the *)
(* rotate speed 0.006 rad per pixel is 12 units, pi is 6283 units.         *)
(* Outside a gesture the orbit controls (or any code placing the camera)   *)
(* leave the camera at any polar angle in [0, pi].                         *)
(***************************************************************************)
MaxDrag == 600            \* |dy| of one pointermove, in pixels
AngleEps == 2             \* const eps = 0.001
RotateSpeed == 12         \* this._rotateSpeed = 0.006
PiAngle == 6283           \* Math.PI

\* a variant of the drag that does not clamp the pitch
dragPitch_unclamped(phi, dy) == phi - dy * RotateSpeed

\* onPointerMove, rotate branch: phi -= dy * speed, then clamp(phi, eps, PI - eps)
dragPitch(phi, dy) ==
  Clamp(phi - dy * RotateSpeed, AngleEps, PiAngle - AngleEps)

\* onPointerDownCapture, rotate branch: phi = acos(clamp(rel.y / r, -1, 1)),
\* the polar angle of the camera as it stands
startPitch(polar) == polar

PolarAngles ==
  {0, 1, AngleEps, AngleEps + 1, 3000,
   PiAngle - AngleEps - 1, PiAngle - AngleEps, PiAngle - 1, PiAngle}
PitchDrags == {0 - MaxDrag, -1, 0, 1, MaxDrag}

InitPitch ==
  /\ st = [_rotateActive |-> FALSE, phi |-> 0, polar |-> 3000]
  /\ gh = [dragged |-> FALSE]

\* the camera is placed while no manual rotate runs
PlaceCamera ==
  /\ ~st._rotateActive
  /\ \E a \in PolarAngles : st' = [st EXCEPT !.polar = a]
  /\ UNCHANGED gh

RotateStart ==
  /\ ~st._rotateActive
  /\ st' = [st EXCEPT !._rotateActive = TRUE, !.phi = startPitch(st.polar)]
  /\ gh' = [dragged |-> FALSE]

RotateDrag ==
  /\ st._rotateActive
  /\ \E dy \in PitchDrags :
       LET phi == dragPitch(st.phi, dy)
       IN st' = [st EXCEPT !.phi = phi, !.polar = phi]
  /\ gh' = [dragged |-> TRUE]

RotateEnd ==
  /\ st._rotateActive
  /\ st' = [st EXCEPT !._rotateActive = FALSE]
  /\ UNCHANGED gh

NextPitch == PlaceCamera \/ RotateStart \/ RotateDrag \/ RotateEnd

SpecPitch == InitPitch /\ [][NextPitch]_vars

(***************************************************************************)
(* SpecBus: the CommandBus (src/src/systems/command_bus.js) under any      *)
(* order of on, off, unsubscribe-handle calls and emit.  `st` holds the    *)
(* listeners Map (a function whose domain is the set of keys; a JS Set is  *)
(* a duplicate-free sequence in insertion order), the handles returned so  *)
(* far, and, in the state right after an emit, that emission with the      *)
(* calls it made in order.  Subscribers are functions that return normally *)
(* and do not call the bus themselves, as the one subscriber of the        *)
(* program (UnitManager.connectTo).  `gh` records the handle calls.        *)
(***************************************************************************)
Kinds == {"MOVE_SELECTED_TO", "OTHER"}
Fns == {"f", "g"}
Payloads == {"p1", "p2"}

Range(s) == {s[i] : i \in 1..Len(s)}

\* a Set.add that keeps duplicates
SetAdd_keepDuplicates(s, x) == Append(s, x)

\* Set.prototype.add
SetAdd(s, x) == IF x \in Range(s) THEN s ELSE Append(s, x)

\* Set.prototype.delete
SetDelete(s, x) == SelectSeq(s, LAMBDA y : y # x)

\* on(type, fn), the Map after the call
on(listeners, type, fn) ==
  LET l1 == IF type \in DOMAIN listeners THEN listeners
            ELSE [k \in DOMAIN listeners \cup {type} |->
                    IF k = type THEN <<>> ELSE listeners[k]]
  IN [l1 EXCEPT ![type] = SetAdd(@, fn)]

\* off(type, fn), the Map after the call
off(listeners, type, fn) ==
  IF type \in DOMAIN listeners
  THEN [listeners EXCEPT ![type] = SetDelete(@, fn)]
  ELSE listeners

\* emit(type, payload): the calls made, in order
emit(listeners, type, payload) ==
  IF type \in DOMAIN listeners
  THEN [i \in 1..Len(listeners[type]) |->
          [fn |-> listeners[type][i], arg |-> payload]]
  ELSE <<>>

InitBus ==
  /\ st = [listeners |-> <<>>, handles |-> {}, emission |-> None]
  /\ gh = [called |-> {}, dropped |-> {}]

On ==
  \E type \in Kinds, fn \in Fns :
    /\ st' = [listeners |-> on(st.listeners, type, fn),
              handles |-> st.handles \cup {<<type, fn>>},
              emission |-> None]
    /\ gh' = [gh EXCEPT !.dropped = @ \ {<<type, fn>>}]

Off ==
  \E type \in Kinds, fn \in Fns :
    /\ st' = [st EXCEPT !.listeners = off(@, type, fn), !.emission = None]
    /\ UNCHANGED gh

\* a handle returned by on is called: () => this.off(type, fn)
CallHandle ==
  \E h \in st.handles :
    /\ st' = [st EXCEPT !.listeners = off(@, h[1], h[2]), !.emission = None]
    /\ gh' = [called |-> gh.called \cup {h}, dropped |-> gh.dropped \cup {h}]

Emit ==
  \E type \in Kinds, payload \in Payloads :
    /\ st' = [st EXCEPT !.emission =
                Some([type |-> type, payload |-> payload,
                      calls |-> emit(st.listeners, type, payload)])]
    /\ UNCHANGED gh

NextBus == On \/ Off \/ CallHandle \/ Emit

SpecBus == InitBus /\ [][NextBus]_vars

(***************************************************************************)
(* SpecFleet: the UnitManager's handler of MOVE_SELECTED_TO                *)
(* (src/src/units/unit_manager.js) over a fleet of three units and a fixed *)
(* arrangement of obstacles.  `st` holds the units (position, velocity,    *)
(* target, selected, radius) and the obstacles; `gh` names the last        *)
(* operation, the commanded target and the offsets generated for it.       *)
(* Lengths are integers in units of 0.01 world units.  cos, sin and sqrt   *)
(* of the sunflower spiral are tabulated for spacing 1 in units of 1e-4,   *)
(* truncated; a vector length is the integer square root of the squared    *)
(* length carried with 6 more binary digits; every product is truncated to *)
(* the grid.  The properties allow the resulting error (GridTol).          *)
(***************************************************************************)
MaxUnits == 5             \* sunflowerOffsets is tabulated for n <= MaxUnits
DefaultRadius == 80       \* opts.radius ?? 0.8
MinSpacing == 120         \* Math.max(1.2, ...)
SpacingMargin == 40       \* 2 * avgRadius + 0.4
ProjectMargin == 20       \* const margin = 0.2
GridTol == 3              \* truncation error of the grid arithmetic
SqrtScale == 64           \* extra resolution of a computed length

RECURSIVE SqrtBetween(_, _, _)
SqrtBetween(x, lo, hi) ==
  IF lo = hi THEN lo
  ELSE LET mid == (lo + hi + 1) \div 2
       IN IF mid * mid <= x THEN SqrtBetween(x, mid, hi)
          ELSE SqrtBetween(x, lo, mid - 1)

\* floor(sqrt(x)) for 0 <= x < 2^30
ISqrt(x) == SqrtBetween(x, 0, 32767)

VSub(a, b) == <<a[1] - b[1], a[2] - b[2], a[3] - b[3]>>
VAdd(a, b) == <<a[1] + b[1], a[2] + b[2], a[3] + b[3]>>
LengthSq(v) == v[1] * v[1] + v[2] * v[2] + v[3] * v[3]

\* c * sqrt(k + 0.5) * (cos, sin)(k * goldenAngle) for spacing 1, k = 0, 1, ...
SunflowerUnit ==
  << <<3989, 0>>, <<-5095, 4667>>, <<779, -8886>>, <<6422, 8376>>,
     <<-11785, -2084>>, <<11164, -7101>> >>

\* x * s / 10000, truncated towards zero
Scaled(x, s) == IF x < 0 THEN 0 - (((0 - x) * s) \div 10000) ELSE (x * s) \div 10000

\* sunflowerOffsets(n, spacing): the offsets (x, z) for k = 0 .. n-1
sunflowerOffsets(n, spacing) ==
  [i \in 1..n |-> <<Scaled(SunflowerUnit[i][1], spacing),
                    Scaled(SunflowerUnit[i][2], spacing)>>]

RECURSIVE SumSeq(_)
SumSeq(s) == IF s = <<>> THEN 0 ELSE Head(s) + SumSeq(Tail(s))

\* spacing from the radii of the selected units
formationSpacing(radii) ==
  LET avgRadius == SumSeq(radii) \div Len(radii)
      wide == 2 * avgRadius + SpacingMargin
  IN IF wide > MinSpacing THEN wide ELSE MinSpacing

\* n / d truncated towards zero (d > 0)
Trunc(n, d) == IF n < 0 THEN 0 - ((0 - n) \div d) ELSE n \div d

\* v * limit / |v| per component, truncated towards zero (|v| > 0); the
\* length of a short vector is computed with the extra resolution
ScaleTo(v, limit) ==
  LET k == IF LengthSq(v) < (32768 * 32768) \div (SqrtScale * SqrtScale)
           THEN SqrtScale ELSE 1
      s == ISqrt(LengthSq(v) * k * k)
  IN <<Trunc(v[1] * limit * k, s), Trunc(v[2] * limit * k, s),
       Trunc(v[3] * limit * k, s)>>

\* one iteration of projectOutsideObstacles
projectOutside(p, unitRadius, ob) ==
  LET dir == VSub(p, ob.position)
      limit == ob.radius + unitRadius + ProjectMargin
  IN IF LengthSq(dir) < limit * limit
     THEN IF LengthSq(dir) = 0              \* d < 1e-5
          THEN VAdd(ob.position, <<limit, 0, 0>>)
          ELSE VAdd(ob.position, ScaleTo(dir, limit))
     ELSE p

RECURSIVE projectOutsideObstacles(_, _, _)
projectOutsideObstacles(point, unitRadius, obstacles) ==
  IF obstacles = <<>> THEN point
  ELSE projectOutsideObstacles(projectOutside(point, unitRadius, Head(obstacles)),
                               unitRadius, Tail(obstacles))

FleetIds == 1..3

\* this.units.filter(u => u.selected), in the order of this.units
selectedUnits(units) ==
  SelectSeq([i \in FleetIds |-> i], LAMBDA i : units[i].selected)

\* a variant of the handler that gives every unit of the fleet a target
moveSelectedTo_everyUnit(w, target) ==
  [w EXCEPT !.units = [i \in FleetIds |-> [w.units[i] EXCEPT !.target = Some(target)]]]

\* the MOVE_SELECTED_TO listener registered by connectTo
moveSelectedTo(w, target) ==
  LET sel == selectedUnits(w.units)
  IN IF Len(sel) = 0 THEN w
     ELSE LET spacing == formationSpacing([i \in 1..Len(sel) |-> w.units[sel[i]].radius])
              offsets == sunflowerOffsets(Len(sel), spacing)
              assigned(i) ==
                projectOutsideObstacles(
                  <<target[1] + offsets[i][1], target[2], target[3] + offsets[i][2]>>,
                  w.units[sel[i]].radius, w.obstacles)
          IN [w EXCEPT !.units =
                [u \in FleetIds |->
                   IF w.units[u].selected
                   THEN [w.units[u] EXCEPT !.target =
                           Some(assigned(CHOOSE i \in 1..Len(sel) : sel[i] = u))]
                   ELSE w.units[u]]]

Sphere(pos, r) == [position |-> pos, radius |-> r]

\* the arrangements of obstacles around the commanded points
ObstacleLayouts ==
  { <<>>,
    << Sphere(<<1000, 0, 1000>>, 200) >>,
    << Sphere(<<1079, 0, 1000>>, 100) >>,
    << Sphere(<<1000, 100, 1000>>, 200) >>,
    << Sphere(<<800, 0, 1000>>, 200), Sphere(<<1250, 0, 1000>>, 200) >> }

CommandTargets == {<<1000, 0, 1000>>, <<0, 100, 0>>}

FleetUnit(pos) ==
  [position |-> pos, velocity |-> <<0, 0, 0>>, target |-> None,
   selected |-> FALSE, radius |-> DefaultRadius]

InitFleet ==
  /\ \E obs \in ObstacleLayouts :
       st = [units |-> [i \in FleetIds |-> FleetUnit(<<100 * i, 0, 0>>)],
             obstacles |-> obs]
  /\ gh = [last |-> "none", target |-> None, offsets |-> <<>>, spacing |-> 0]

\* Unit.setSelected, as the selection of the InputSystem calls it
SetSelected ==
  \E u \in FleetIds, sel \in BOOLEAN :
    /\ st' = [st EXCEPT !.units[u].selected = sel]
    /\ gh' = [last |-> "select", target |-> None, offsets |-> <<>>, spacing |-> 0]

\* commandBus.emit(CMD.MOVE_SELECTED_TO, {target})
MoveSelectedTo ==
  \E target \in CommandTargets :
    LET sel == selectedUnits(st.units)
        spacing == IF Len(sel) = 0 THEN 0
                   ELSE formationSpacing([i \in 1..Len(sel) |-> st.units[sel[i]].radius])
    IN /\ st' = moveSelectedTo(st, target)
       /\ gh' = [last |-> "move", target |-> Some(target),
                 offsets |-> sunflowerOffsets(Len(sel), spacing),
                 spacing |-> spacing]

NextFleet == SetSelected \/ MoveSelectedTo

SpecFleet == InitFleet /\ [][NextFleet]_vars

(***************************************************************************)
(* SpecOffsets: the formation offsets as a function of the radii of the    *)
(* selected units: spacing as connectTo computes it, then                  *)
(* sunflowerOffsets.  `st` holds the radii, the spacing and the offsets of *)
(* the last call.                                                          *)
(***************************************************************************)
FleetRadii == {30, DefaultRadius, 150}

InitOffsets ==
  /\ st = [radii |-> <<>>, spacing |-> 0, offsets |-> <<>>]
  /\ gh = [last |-> "none"]

GenerateOffsets ==
  \E n \in 1..MaxUnits :
    \E radii \in [1..n -> FleetRadii] :
      LET spacing == formationSpacing(radii)
      IN /\ st' = [radii |-> radii, spacing |-> spacing,
                   offsets |-> sunflowerOffsets(n, spacing)]
         /\ gh' = [last |-> "offsets"]

SpecOffsets == InitOffsets /\ [][GenerateOffsets]_vars

(***************************************************************************)
(* SpecSteer: Unit.update (src/src/units/unit.js) for one unit among       *)
(* neighbours and obstacles that stay where they are.  `st` holds the      *)
(* unit, the neighbours (the other units of the array passed to update)    *)
(* and the obstacles; `gh` records what the last tick computed on the way. *)
(* Lengths are in units of 0.01, velocities in 0.01/s, accelerations in    *)
(* 0.01/s^2, dt in ms, unit vectors in units of 0.001; arithmetic as in    *)
(* SpecFleet.  A run is MaxTicks ticks from a state drawn from the unit's  *)
(* range: at the origin, with a speed of at most maxSpeed.                 *)
(***************************************************************************)
MaxTicks == 2             \* ticks of one run
MaxSpeed == 1000          \* this.maxSpeed = opts.maxSpeed ?? 10
MaxAccel == 1500          \* this.maxAccel = opts.maxAccel ?? 15
ArriveRadius == 600       \* this.arriveRadius = 6
StopRadius == 60          \* this.stopRadius = 0.6
AvoidMargin == 60         \* this.avoidMargin = 0.6
MaxAvoidForce == 3000     \* this.maxAvoidForce = 30
MinLookDist == 200        \* Math.max(2.0, ...)
One == 1000               \* the length of a unit vector

VScale(v, num, den) ==
  <<Trunc(v[1] * num, den), Trunc(v[2] * num, den), Trunc(v[3] * num, den)>>
Dot(a, b) == a[1] * b[1] + a[2] * b[2] + a[3] * b[3]
Zero3 == <<0, 0, 0>>

\* if (mag > cap) v.multiplyScalar(cap / mag)
CapLength(v, cap) == IF LengthSq(v) > cap * cap THEN ScaleTo(v, cap) ELSE v

\* a variant of the arrival ramp without the ramp
desiredSpeed_full(d) == MaxSpeed

\* d < this.arriveRadius ? this.maxSpeed * (d / this.arriveRadius) : this.maxSpeed
desiredSpeed(d) ==
  IF d < ArriveRadius THEN (MaxSpeed * d) \div ArriveRadius ELSE MaxSpeed

\* the arrival branch for a unit that has not arrived: arriveSteer
arriveSteer(u) ==
  LET toTarget == VSub(Val(u.target), u.position)
      d == ISqrt(LengthSq(toTarget))
      desired == ScaleTo(toTarget, desiredSpeed(d))
  IN CapLength(VSub(desired, u.velocity), MaxAccel)

\* d <= this.stopRadius
hasArrived(u) ==
  LengthSq(VSub(Val(u.target), u.position)) <= StopRadius * StopRadius

\* separation(self, neighbors, maxAccel): the sum of the weighted differences
\* and the number of neighbours in range
RECURSIVE repulseSum(_, _)
repulseSum(u, neighbors) ==
  IF neighbors = <<>> THEN [sum |-> Zero3, count |-> 0]
  ELSE LET n == Head(neighbors)
           rest == repulseSum(u, Tail(neighbors))
           diff == VSub(u.position, n.position)
           d2 == LengthSq(diff)
           desired == ((u.radius + n.radius) * 12) \div 10
       IN IF d2 > 0 /\ d2 < desired * desired
          THEN [sum |-> VAdd(rest.sum, VScale(diff, 1000000, 100 * d2 + 1)),
                count |-> rest.count + 1]
          ELSE rest

separation(u, neighbors, maxAccel) ==
  LET r == repulseSum(u, neighbors)
      repulse == IF r.count > 0 THEN VScale(r.sum, 1, r.count) ELSE r.sum
  IN CapLength(repulse, maxAccel)

\* avoidSpheres, the loop: the most threatening obstacle so far
RECURSIVE mostThreat(_, _, _, _, _)
mostThreat(u, forward, lookDist, obstacles, best) ==
  IF obstacles = <<>> THEN best
  ELSE LET ob == Head(obstacles)
           expanded == ob.radius + u.radius + AvoidMargin
           toCenter == VSub(ob.position, u.position)
           along == Trunc(Dot(toCenter, forward), One)
           tt == Clamp(along, 0, lookDist)
           p == VAdd(u.position, VScale(forward, tt, One))
           d2 == LengthSq(VSub(p, ob.position))
           found == /\ along >= 0 - expanded
                    /\ d2 < expanded * expanded
                    /\ (best = None \/ d2 < Val(best).d2)
       IN mostThreat(u, forward, lookDist, Tail(obstacles),
                     IF found THEN Some([ob |-> ob, d2 |-> d2, p |-> p]) ELSE best)

avoidSpheres(u, obstacles) ==
  LET forward0 == IF LengthSq(u.velocity) = 0 /\ IsSome(u.target)
                  THEN VSub(Val(u.target), u.position) ELSE u.velocity
      speed == ISqrt(LengthSq(u.velocity))
  IN IF LengthSq(forward0) = 0 THEN Zero3
     ELSE LET forward == ScaleTo(forward0, One)
              lookAhead == (speed * 12) \div 10 + MaxSpeed \div 4
              lookDist == IF lookAhead > MinLookDist THEN lookAhead ELSE MinLookDist
              threat == mostThreat(u, forward, lookDist, obstacles, None)
          IN IF threat = None THEN Zero3
             ELSE LET th == Val(threat)
                      normal0 == VSub(th.p, th.ob.position)
                  IN IF LengthSq(normal0) = 0 THEN Zero3
                     ELSE LET normal == ScaleTo(normal0, One)
                              expanded == th.ob.radius + u.radius + AvoidMargin
                              minDist == ISqrt(th.d2)
                              penetration == IF expanded > minDist
                                             THEN expanded - minDist ELSE 0
                              strength == (Clamp((penetration * One) \div expanded,
                                                 100, One) * MaxAvoidForce) \div One
                              forwardComp == Trunc(Dot(normal, forward), One)
                              avoidDir == VSub(normal, VScale(forward, forwardComp, One))
                          IN IF LengthSq(avoidDir) = 0 THEN Zero3
                             ELSE ScaleTo(avoidDir, strength)

\* Math.pow(this.idleDamping, Math.max(1, dt * 60)), in thousandths:
\* 0.9 up to dt = 1/60 s, 0.9^3 at dt = 0.05 s
idleDamping(dt) == IF dt * 60 <= 1000 THEN 900 ELSE 729

\* a variant of the integration that does not clamp the speed
clampSpeed_none(v) == v

\* if (speed > this.maxSpeed) this.velocity.multiplyScalar(this.maxSpeed / speed)
clampSpeed(v) == CapLength(v, MaxSpeed)

\* update, arrival: a unit within stopRadius of its target stops and
\* clears the target
arrivalStep(u) ==
  IF IsSome(u.target) /\ hasArrived(u)
  THEN [u EXCEPT !.velocity = Zero3, !.target = None] ELSE u

\* update, the steering summed from arrival, separation and avoidance
steering(u1, neighbors, obstacles) ==
  LET arrive == IF IsSome(u1.target) THEN arriveSteer(u1) ELSE Zero3
      sep == separation(u1, neighbors, MaxAccel)
      sepWeight == IF IsSome(u1.target) THEN 9 ELSE 6
      avoid == IF Len(obstacles) > 0
               THEN CapLength(avoidSpheres(u1, obstacles), MaxAvoidForce) ELSE Zero3
  IN VAdd(VAdd(arrive, VScale(sep, sepWeight, 10)), VScale(avoid, 12, 10))

\* update, this.velocity.addScaledVector(steer, dt)
integrated(u, dt, neighbors, obstacles) ==
  LET u1 == arrivalStep(u)
  IN VAdd(u1.velocity, VScale(steering(u1, neighbors, obstacles), dt, 1000))

\* Unit.update(dt, neighbors, obstacles)
unitUpdate(u, dt, neighbors, obstacles) ==
  LET u1 == arrivalStep(u)
      v1 == integrated(u, dt, neighbors, obstacles)
      v2 == clampSpeed(v1)
      v3 == IF u1.target = None /\ LengthSq(v1) > 0
            THEN VScale(v2, idleDamping(dt), 1000) ELSE v2
  IN [u1 EXCEPT !.velocity = v3,
                !.position = VAdd(u1.position, VScale(v3, dt, 1000))]

SteerDts == {0, 16, 50}
SteerTargets ==
  {None, Some(<<50, 0, 0>>), Some(<<300, 0, 0>>), Some(<<600, 0, 0>>),
   Some(<<900, 0, 0>>), Some(<<300, 0, 400>>), Some(<<0, 61, 0>>)}
SteerVelocities ==
  {Zero3, <<1000, 0, 0>>, <<600, 0, 800>>, <<-1000, 0, 0>>, <<0, 0, -1000>>}
NeighbourLayouts ==
  { <<>>,
    << Sphere(<<100, 0, 0>>, DefaultRadius) >>,
    << Sphere(<<-50, 0, 0>>, DefaultRadius), Sphere(<<0, 0, 120>>, 150) >> }
SteerObstacles ==
  { <<>>,
    << Sphere(<<300, 0, 50>>, 100) >>,
    << Sphere(<<200, 0, -100>>, 100), Sphere(<<0, 200, 0>>, 50) >> }

NoTick ==
  [last |-> "none", ticks |-> 0,
   arrived |-> FALSE,        \* the unit was within stopRadius of its target
   seeking |-> FALSE,        \* the unit had a target further away
   d |-> 0,                  \* its distance to the target
   desiredSpeed |-> 0,       \* the desired speed the tick computed
   arriveSteer |-> Zero3,    \* the arrival steering after the cap
   capped |-> FALSE,         \* the arrival steering exceeded maxAccel
   clamped |-> FALSE,        \* the integrated speed exceeded maxSpeed
   pushed |-> FALSE,         \* the separation force was not zero
   avoiding |-> FALSE,       \* the avoidance force was not zero
   from |-> Zero3,           \* the position before the tick
   goal |-> None]            \* the target before the tick

InitSteer ==
  /\ \E target \in SteerTargets, velocity \in SteerVelocities,
        neighbors \in NeighbourLayouts, obstacles \in SteerObstacles :
       st = [unit |-> [position |-> Zero3, velocity |-> velocity,
                       target |-> target, radius |-> DefaultRadius],
             neighbors |-> neighbors, obstacles |-> obstacles]
  /\ gh = NoTick

\* one call of update by the engine's tick
UnitTick ==
  /\ gh.ticks < MaxTicks
  /\ \E dt \in SteerDts :
       LET u == st.unit
           seeking == IsSome(u.target) /\ ~hasArrived(u)
           toTarget == IF IsSome(u.target) THEN VSub(Val(u.target), u.position)
                       ELSE Zero3
           d == ISqrt(LengthSq(toTarget))
           raw == IF seeking
                  THEN VSub(ScaleTo(toTarget, desiredSpeed(d)), u.velocity)
                  ELSE Zero3
       IN /\ st' = [st EXCEPT !.unit = unitUpdate(u, dt, st.neighbors, st.obstacles)]
          /\ gh' = [last |-> "tick", ticks |-> gh.ticks + 1,
                    arrived |-> IsSome(u.target) /\ hasArrived(u),
                    seeking |-> seeking,
                    d |-> d,
                    desiredSpeed |-> IF seeking THEN desiredSpeed(d) ELSE 0,
                    arriveSteer |-> IF seeking THEN arriveSteer(u) ELSE Zero3,
                    capped |-> LengthSq(raw) > MaxAccel * MaxAccel,
                    clamped |-> LengthSq(integrated(u, dt, st.neighbors, st.obstacles))
                                  > MaxSpeed * MaxSpeed,
                    pushed |-> separation(arrivalStep(u), st.neighbors, MaxAccel) # Zero3,
                    avoiding |-> avoidSpheres(arrivalStep(u), st.obstacles) # Zero3,
                    from |-> u.position,
                    goal |-> u.target]

SpecSteer == InitSteer /\ [][UnitTick]_vars

(***************************************************************************)
(* SpecEvt: what a DOM event does by itself, between two ticks: selection  *)
(* with the left button, the plain right-button click, the manual rotate   *)
(* with camera translations, mouse moves over every ground hit, and ticks. *)
(* `gh` records the kind of the last handler call.                         *)
(***************************************************************************)
InitEvt ==
  /\ st = InitState(FALSE, NoSelection)
  /\ gh = InitGhost("cursor")

NextEvt ==
  \/ PointerDown({2}) \/ PointerUp({2})
  \/ PointerMove({LockedClient}, {NoMovement}, CamSteps)
  \/ MouseDown({0, 2}, {LockedClient})
  \/ MouseMove({LockedClient}, {NoMovement}, Hits)
  \/ MouseUp({0, 2})
  \/ Tick({<<0, 0>>})

SpecEvt == InitEvt /\ [][NextEvt]_vars

(***************************************************************************)
(* SpecEdge: edge scrolling (src/unnamed/part_000) among the gestures: the *)
(* pointer moved by mousemove inside and outside the left edge band, in    *)
(* absolute and in pointer-locked mode, with selection, right-button       *)
(* press (plain, or with Ctrl: manual rotate) and orbit interaction, and   *)
(* ticks of zero and non-zero frame delta with the camera facing along +z  *)
(* or -z, so that a scroll at the left edge is a whole step along x.       *)
(***************************************************************************)
EdgePts == {<<10, 50>>, <<50, 50>>}
EdgeMoves == {<<-2, 0>>, <<2, 0>>}
EdgeDirs == {<<0, 1>>, <<0, -1>>}

InitEdge ==
  /\ st = InitState(TRUE, NoSelection)
  /\ gh = InitGhost("edge")

NextEdge ==
  \/ PointerDown({2}) \/ PointerUp({2})
  \/ MouseMove(EdgePts, EdgeMoves, {None})
  \/ MouseDown({0}, {LockedClient})
  \/ MouseUp({0})
  \/ PointerLockChange(BOOLEAN)
  \/ ControlsStart \/ ControlsEnd
  \/ TickAt(DtVals, EdgeDirs)

SpecEdge == InitEdge /\ [][NextEdge]_vars

(***************************************************************************)
(* SpecDrag: one plain right-button gesture at a time, from press to       *)
(* release, as the browser delivers it (the dispatch of SpecDom), in       *)
(* absolute and in pointer-locked mode.  `gh` follows the gesture: the     *)
(* press position, the pointer position of the last move, the movement     *)
(* deltas summed since the press, and whether a drag that had been         *)
(* classified was forgotten before the release.                            *)
(***************************************************************************)
MaxAcc == 8               \* the summed movement is followed up to this

DragMoves == {<<1, 0>>, <<3, 0>>, <<6, 0>>}
DragPts == {<<18, 50>>, <<21, 54>>, <<26, 50>>}

NoGesture ==
  [last |-> "none", pressed |-> FALSE, start |-> <<0, 0>>, pos |-> <<0, 0>>,
   acc |-> 0, lost |-> FALSE]

InitDrag ==
  /\ \E edge \in BOOLEAN : st = InitState(edge, NoSelection)
  /\ gh = NoGesture

DragLock ==
  /\ ~gh.pressed
  /\ \E b \in BOOLEAN :
       /\ st' = _onPointerLockChange(Fresh(st), b)
       /\ gh' = [NoGesture EXCEPT !.last = "lock"]

DragPress ==
  /\ ~gh.pressed
  /\ \E pt \in PositionsOf(DragPts) :
       LET e == [button |-> 2, buttons |-> 2, ctrlKey |-> FALSE, client |-> pt]
       IN /\ st' = onMouseDown(dispatchPointerDown(Fresh(st), e), e)
          /\ gh' = [NoGesture EXCEPT !.last = "press", !.pressed = TRUE,
                                     !.start = pt, !.pos = pt]

DragMove ==
  /\ gh.pressed
  /\ \E e \in [button : {1}, ctrlKey : {FALSE}, client : PositionsOf(DragPts),
               movement : DeltasOf(DragMoves), hit : {None}, step : {<<0, 0>>}] :
       LET post == onMouseMove(dispatchPointerMove(Fresh(st), e), e)
       IN /\ gh.acc + e.movement[1] <= MaxAcc
          /\ st' = post
          /\ gh' = [gh EXCEPT !.last = "move",
                              !.pos = e.client,
                              !.acc = @ + e.movement[1],
                              !.lost = @ \/ (st._rmbDragged /\ ~post._rmbDragged)]

DragRelease ==
  /\ gh.pressed
  /\ LET e == [button |-> 2, buttons |-> 0, ctrlKey |-> FALSE]
     IN /\ st' = onMouseUp(dispatchPointerUp(Fresh(st), e), e)
        /\ gh' = [gh EXCEPT !.last = "release", !.pressed = FALSE]

NextDrag == DragLock \/ DragPress \/ DragMove \/ DragRelease

SpecDrag == InitDrag /\ [][NextDrag]_vars

(***************************************************************************)
(* SpecPan: the camera translations of part_000 as vector arithmetic: the  *)
(* edge-scroll step of _handleEdgeScrolling and the pointer-locked pan     *)
(* step of onPointerMove.  `st` holds camera.position, controls.target     *)
(* (both in 0.01 world units) and the camera's world direction (a unit     *)
(* vector in 0.001, from the target towards which the camera looks); `gh`  *)
(* records the last step and the pose before it.                           *)
(***************************************************************************)
MaxSteps == 2             \* translation steps followed per run

crossVectors(a, b) ==
  <<a[2] * b[3] - a[3] * b[2], a[3] * b[1] - a[1] * b[3],
    a[1] * b[2] - a[2] * b[1]>>

\* Vector3.normalize: divideScalar(length() || 1)
normalize(v) == IF LengthSq(v) = 0 THEN Zero3 ELSE ScaleTo(v, One)

\* a variant that keeps the vertical component of the direction
flatten_keepY(v) == v

\* forward.y = 0; new THREE.Vector3(camDir.x, 0, camDir.z)
flatten(v) == <<v[1], 0, v[3]>>

Up == <<0, 1, 0>>

\* _handleEdgeScrolling: move = normalize(forward * -moveZ + right * moveX)
\* * speed * dt, dt in ms
edgeScrollStep(camDir, moveX, moveZ, dt) ==
  LET forward == normalize(flatten(camDir))
      right == normalize(crossVectors(forward, Up))
      dir == normalize(VAdd(VScale(forward, 0 - moveZ, 1), VScale(right, moveX, 1)))
      dist == (EdgeScrollSpeed * 100 * dt) \div 1000
  IN VScale(dir, dist, One)

\* Math.max(0.0015, Math.min(0.015, dist * 0.0045)), in units of 0.0001
panScale(camera, target) ==
  Clamp((ISqrt(LengthSq(VSub(camera, target))) * 45) \div 100, 15, 150)

\* onPointerMove, locked pan: move = right * (-dx * panScale)
\* + forwardXZ * (dy * panScale)
lockedPanStep(camera, target, camDir, dx, dy) ==
  LET scale == panScale(camera, target)
      right == normalize(crossVectors(camDir, Up))
      forwardXZ == normalize(flatten(camDir))
  IN VAdd(VScale(right, (0 - dx) * scale, 100 * One),
          VScale(forwardXZ, dy * scale, 100 * One))

\* camera.position.add(move); controls.target.add(move)
translate(w, move) ==
  [w EXCEPT !.camera = VAdd(w.camera, move), !.target = VAdd(w.target, move)]

PanTargets == {<<0, 0, 0>>, <<500, 100, -300>>}
\* level, tilted, straight down
PanDirs == {<<1000, 0, 0>>, <<600, -800, 0>>, <<0, -600, 800>>,
            <<-577, -577, 577>>, <<0, -1000, 0>>}
PanDists == {1000, 4000}
EdgeSides == {m \in {-1, 0, 1} \X {-1, 0, 1} : m # <<0, 0>>}
PanDeltas == {<<0, 40>>, <<-25, 0>>, <<3, -7>>}

InitPan ==
  /\ \E t \in PanTargets, d \in PanDirs, r \in PanDists :
       st = [camera |-> VSub(t, VScale(d, r, One)), target |-> t, camDir |-> d]
  /\ gh = [last |-> "none", steps |-> 0, move |-> Zero3,
           camera |-> Zero3, target |-> Zero3, panned |-> FALSE]

EdgeStep ==
  /\ gh.steps < MaxSteps
  /\ \E m \in EdgeSides, dt \in {16, 50} :
       LET move == edgeScrollStep(st.camDir, m[1], m[2], dt)
       IN /\ st' = translate(st, move)
          /\ gh' = [gh EXCEPT !.last = "edge", !.steps = @ + 1, !.move = move,
                              !.camera = st.camera, !.target = st.target]

PanStep ==
  /\ gh.steps < MaxSteps
  /\ \E d \in PanDeltas :
       LET move == lockedPanStep(st.camera, st.target, st.camDir, d[1], d[2])
       IN /\ st' = translate(st, move)
          /\ gh' = [gh EXCEPT !.last = "pan", !.steps = @ + 1, !.move = move,
                              !.camera = st.camera, !.target = st.target,
                              !.panned = @ \/ move # Zero3]

NextPan == EdgeStep \/ PanStep

SpecPan == InitPan /\ [][NextPan]_vars

(***************************************************************************)
(* SpecSep: separation (src/src/units/unit.js) as a function of the unit   *)
(* and its neighbours, and the weight update() gives it.  `st` holds the   *)
(* unit, the neighbours gathered so far and the result of the last call.   *)
(***************************************************************************)
MaxNeighbours == 3        \* neighbours of the unit

\* one at the unit's own position, one so near that the force is capped,
\* three more in range, one out of range
NeighbourSpots ==
  {<<0, 0, 0>>, <<3, 0, 0>>, <<100, 0, 0>>, <<-50, 0, 0>>, <<0, 0, 120>>,
   <<400, 0, 0>>}

\* const sepWeight = this.target ? 0.9 : 0.6, in tenths
sepWeight(u) == IF IsSome(u.target) THEN 9 ELSE 6

\* the other units closer than 1.2 * (sum of the radii)
RECURSIVE withinDesired(_, _)
withinDesired(u, neighbors) ==
  IF neighbors = <<>> THEN 0
  ELSE LET n == Head(neighbors)
           desired == ((u.radius + n.radius) * 12) \div 10
       IN withinDesired(u, Tail(neighbors))
            + (IF LengthSq(VSub(u.position, n.position)) < desired * desired
               THEN 1 ELSE 0)

InitSep ==
  /\ \E target \in {None, Some(<<900, 0, 0>>)} :
       st = [unit |-> [position |-> Zero3, velocity |-> Zero3,
                       target |-> target, radius |-> DefaultRadius],
             neighbors |-> <<>>, sep |-> Zero3, count |-> 0, weighted |-> Zero3]
  /\ gh = [last |-> "none"]

\* another unit enters the registry
AddNeighbour ==
  /\ Len(st.neighbors) < MaxNeighbours
  /\ \E p \in NeighbourSpots :
       st' = [st EXCEPT !.neighbors = Append(@, Sphere(p, DefaultRadius))]
  /\ gh' = [last |-> "add"]

\* update(): sep = separation(this, neighbors, this.maxAccel) and its
\* weighted share of the steering
Separate ==
  /\ LET sep == separation(st.unit, st.neighbors, MaxAccel)
     IN st' = [st EXCEPT !.sep = sep,
                         !.count = repulseSum(st.unit, st.neighbors).count,
                         !.weighted = VScale(sep, sepWeight(st.unit), 10)]
  /\ gh' = [last |-> "separation"]

NextSep == AddNeighbour \/ Separate

SpecSep == InitSep /\ [][NextSep]_vars

(***************************************************************************)
(* SpecAvoid: avoidSpheres (src/src/units/unit.js) as a function of the    *)
(* unit and the obstacles.  `st` holds the unit, the obstacles placed so   *)
(* far and the force of the last call.                                     *)
(***************************************************************************)
MaxObstacles == 2         \* obstacles in the scene

\* dead ahead, ahead off the axis (twice), beside the path, overlapping
\* the unit from behind, ahead beyond the probe
ObstacleSpots ==
  { Sphere(<<300, 0, 0>>, 100), Sphere(<<300, 0, 50>>, 100),
    Sphere(<<200, 0, -100>>, 100), Sphere(<<0, 200, 0>>, 50),
    Sphere(<<-100, 0, 0>>, 100), Sphere(<<2000, 0, 0>>, 100) }

InitAvoid ==
  /\ \E target \in {None, Some(<<900, 0, 0>>)},
        velocity \in {Zero3, <<1000, 0, 0>>, <<600, 0, 800>>} :
       st = [unit |-> [position |-> Zero3, velocity |-> velocity,
                       target |-> target, radius |-> DefaultRadius],
             obstacles |-> <<>>, avoid |-> Zero3]
  /\ gh = [last |-> "none"]

\* ObstacleManager.addSphere
PlaceObstacle ==
  /\ Len(st.obstacles) < MaxObstacles
  /\ \E ob \in ObstacleSpots : st' = [st EXCEPT !.obstacles = Append(@, ob)]
  /\ gh' = [last |-> "place"]

\* update(): avoid = avoidSpheres(this, obstacles)
Avoid ==
  /\ st' = [st EXCEPT !.avoid = avoidSpheres(st.unit, st.obstacles)]
  /\ gh' = [last |-> "avoid"]

NextAvoid == PlaceObstacle \/ Avoid

SpecAvoid == InitAvoid /\ [][NextAvoid]_vars

(***************************************************************************)
(* SpecEngine: the frame loop of createEngine (src/src/systems/engine.js). *)
(* `st` holds the closure variables last and running, whether the          *)
(* animation frame requested last (raf) is still pending, and the value    *)
(* of performance.now(), a clock that never runs backwards.  Times are in  *)
(* milliseconds.  start() and stop() are called between frames; the        *)
(* browser runs a pending frame callback at any later time.  `gh` records  *)
(* the frame delta the systems received, when the previous tick ran and    *)
(* whether the tick is the first one after a stop()/start() pause.         *)
(***************************************************************************)
MaxClock == 120           \* the clock is observed up to this time
MaxDelta == 50            \* Math.min(0.05, ...)

ClockSteps == {0, 16, 50, 51}

frameDelta_unclamped(now, last) == now - last

\* const dt = Math.min(0.05, (now - last) / 1000)
frameDelta(now, last) ==
  IF now - last < MaxDelta THEN now - last ELSE MaxDelta

\* createEngine: let raf = 0; let last = performance.now(); let running = false
createEngine(now) ==
  [clock |-> now, last |-> now, running |-> FALSE, pending |-> FALSE]

\* update(): the systems are updated with dt, then the next frame is
\* requested while the engine is running
engine_update(e) ==
  [e EXCEPT !.last = e.clock, !.pending = e.running]

start(e) ==
  IF e.running THEN e
  ELSE [e EXCEPT !.running = TRUE, !.last = e.clock, !.pending = TRUE]

stop(e) == [e EXCEPT !.running = FALSE, !.pending = FALSE]

InitEngine ==
  /\ st = createEngine(0)
  /\ gh = [last |-> "init", dt |-> 0, prevTick |-> None, sincePrev |-> 0,
           stopped |-> FALSE, paused |-> FALSE, resumed |-> FALSE]

\* time passes: no code of the engine runs
Elapse(d) ==
  /\ st.clock + d <= MaxClock
  /\ st' = [st EXCEPT !.clock = st.clock + d]
  /\ gh' = [gh EXCEPT !.last = "elapse"]

Start ==
  /\ st' = start(st)
  /\ gh' = [gh EXCEPT !.last = "start",
                      !.paused = gh.paused \/ (gh.stopped /\ ~st.running)]

Stop ==
  /\ st' = stop(st)
  /\ gh' = [gh EXCEPT !.last = "stop",
                      !.stopped = gh.stopped \/ gh.prevTick # None]

\* the browser runs the pending frame callback
Frame ==
  /\ st.pending
  /\ st' = engine_update(st)
  /\ gh' = [last |-> "tick",
            dt |-> frameDelta(st.clock, st.last),
            prevTick |-> Some(st.clock),
            sincePrev |-> IF gh.prevTick = None THEN st.clock
                          ELSE st.clock - Val(gh.prevTick),
            stopped |-> FALSE,
            paused |-> FALSE,
            resumed |-> gh.paused]

NextEngine ==
  \/ \E d \in ClockSteps : Elapse(d)
  \/ Start
  \/ Stop
  \/ Frame

SpecEngine == InitEngine /\ [][NextEngine]_vars

(***************************************************************************)
(* SpecLoop: the frame requests of createEngine when start() and stop()    *)
(* are called at any point, also by a system while update() runs.  `st`    *)
(* holds running, raf (the id of the request made last), the ids of the    *)
(* requests the browser has not run or cancelled yet, and the number of    *)
(* ids issued.  The clock plays no part here.                              *)
(***************************************************************************)
MaxFrames == 9            \* frame requests followed per run

\* raf = requestAnimationFrame(update)
requestAnimationFrame(e) ==
  [e EXCEPT !.issued = e.issued + 1, !.raf = e.issued + 1,
            !.pending = e.pending \cup {e.issued + 1}]

cancelAnimationFrame(e, id) == [e EXCEPT !.pending = e.pending \ {id}]

loop_start(e) ==
  IF e.running THEN e ELSE requestAnimationFrame([e EXCEPT !.running = TRUE])

loop_stop(e) == cancelAnimationFrame([e EXCEPT !.running = FALSE], e.raf)

\* what a system's update may call on the engine during a tick
SystemCalls ==
  {<<>>, <<"stop">>, <<"start">>, <<"stop", "start">>, <<"start", "stop">>}

RECURSIVE callAll(_, _)
callAll(e, calls) ==
  IF calls = <<>> THEN e
  ELSE callAll(IF Head(calls) = "start" THEN loop_start(e) ELSE loop_stop(e),
               Tail(calls))

\* update() run for the request `id`: the systems' updates, then
\* if (running) raf = requestAnimationFrame(update)
loop_update(e, id, calls) ==
  LET e1 == callAll([e EXCEPT !.pending = e.pending \ {id}], calls)
  IN IF e1.running THEN requestAnimationFrame(e1) ELSE e1

InitLoop ==
  /\ st = [running |-> FALSE, raf |-> 0, pending |-> {}, issued |-> 0]
  /\ gh = [last |-> "init", nested |-> FALSE]

LoopStart ==
  /\ st.issued < MaxFrames
  /\ st' = loop_start(st)
  /\ gh' = [gh EXCEPT !.last = "start"]

LoopStop ==
  /\ st' = loop_stop(st)
  /\ gh' = [gh EXCEPT !.last = "stop"]

\* the browser runs one of the pending frame callbacks
LoopFrame ==
  /\ st.issued + 2 <= MaxFrames
  /\ \E id \in st.pending, calls \in SystemCalls :
       /\ st' = loop_update(st, id, calls)
       /\ gh' = [last |-> "tick", nested |-> gh.nested \/ calls # <<>>]

NextLoop == LoopStart \/ LoopStop \/ LoopFrame

SpecLoop == InitLoop /\ [][NextLoop]_vars

(***************************************************************************)
(* SpecEmit: one emission of the CommandBus, subscriber by subscriber.     *)
(* emit runs Set.prototype.forEach over the listeners of the kind: the     *)
(* entries are visited in insertion order, an entry deleted before its     *)
(* turn is not visited, and an entry added while the iteration runs is     *)
(* visited before it ends.  `st` holds the Set of one kind as a sequence,  *)
(* the number of entries the running iteration has passed, the listeners   *)
(* at the moment emit was called and the calls made so far.  A subscriber  *)
(* that is invoked may call on or off for that kind.                       *)
(***************************************************************************)
MaxCalls == 4             \* invocations followed per emission

IndexOf(s, x) == CHOOSE i \in 1..Len(s) : s[i] = x

\* what an invoked subscriber does to the bus
Effects == {<<"none", "f">>} \cup ({"on", "off"} \X Fns)

\* the Set and the iteration's position after on / off by a subscriber
applyEffect(w, eff) ==
  IF eff[1] = "on" THEN [w EXCEPT !.set = SetAdd(@, eff[2])]
  ELSE IF eff[1] = "off" /\ eff[2] \in Range(w.set)
  THEN [w EXCEPT !.set = SetDelete(@, eff[2]),
                 !.passed = IF IndexOf(w.set, eff[2]) <= w.passed
                            THEN w.passed - 1 ELSE w.passed]
  ELSE w

\* forEach, one entry: fn(payload) is called and may change the Set
forEachStep(w, eff) ==
  LET fn == w.set[w.passed + 1]
  IN applyEffect([w EXCEPT !.passed = w.passed + 1,
                           !.calls = Append(w.calls, fn)], eff)

InitEmit ==
  /\ st = [set |-> <<>>, emitting |-> FALSE, passed |-> 0,
           atEmit |-> {}, calls |-> <<>>]
  /\ gh = [last |-> "none", added |-> {}, removed |-> {}, late |-> FALSE]

\* on / off between emissions
Subscribe ==
  /\ ~st.emitting
  /\ \E fn \in Fns : st' = [st EXCEPT !.set = SetAdd(@, fn)]
  /\ gh' = [gh EXCEPT !.last = "on"]

Unsubscribe ==
  /\ ~st.emitting
  /\ \E fn \in Fns : st' = [st EXCEPT !.set = SetDelete(@, fn)]
  /\ gh' = [gh EXCEPT !.last = "off"]

\* emit(type, payload) is called
BeginEmit ==
  /\ ~st.emitting
  /\ st' = [st EXCEPT !.emitting = TRUE, !.passed = 0,
                      !.atEmit = Range(st.set), !.calls = <<>>]
  /\ gh' = [last |-> "emit", added |-> {}, removed |-> {}, late |-> FALSE]

\* the next subscriber is invoked
Invoke ==
  /\ st.emitting /\ st.passed < Len(st.set) /\ Len(st.calls) < MaxCalls
  /\ \E eff \in Effects :
       LET fn == st.set[st.passed + 1]
       IN /\ st' = forEachStep(st, eff)
          /\ gh' = [last |-> "call",
                    added |-> IF eff[1] = "on" /\ eff[2] \notin Range(st.set)
                              THEN gh.added \cup {eff[2]} ELSE gh.added,
                    removed |-> IF eff[1] = "off" THEN gh.removed \cup {eff[2]}
                                ELSE IF eff[1] = "on" THEN gh.removed \ {eff[2]}
                                ELSE gh.removed,
                    late |-> gh.late \/ fn \in gh.removed]

\* forEach has passed every entry: emit returns
EndEmit ==
  /\ st.emitting /\ st.passed = Len(st.set)
  /\ st' = [st EXCEPT !.emitting = FALSE]
  /\ gh' = [gh EXCEPT !.last = "end"]

NextEmit == Subscribe \/ Unsubscribe \/ BeginEmit \/ Invoke \/ EndEmit

SpecEmit == InitEmit /\ [][NextEmit]_vars

(***************************************************************************)
(*                              Properties                                 *)
(***************************************************************************)

\* C1: in every reachable state at most one gesture is active among manual
\* rotate (_rotateActive), right-button pan/click (_rmbDown), edge scrolling
\* (_isEdgeScrolling) and volumetric selection (isSelecting).
C1_AtMostOneGesture ==
  LET active == <<st._rotateActive, st._rmbDown, st._isEdgeScrolling,
                  st.isSelecting>>
  IN \A i, j \in 1..4 : (i # j /\ active[i]) => ~active[j]

\* C2: the release of a right-button press made without the rotate modifier
\* emits MoveSelectedTo, targeted at (cursor.x, cursorHeight, cursor.z), if
\* and only if no drag was classified between the press and the release, in
\* absolute-position mode and under pointer lock.
C2_PlainClickEmitsIffNoDrag ==
  (gh.rmb = "released" /\ gh.rmbWasPlain)
    => /\ (gh.rmbEmits > 0) <=> ~gh.rmbDrag
       /\ gh.rmbTargetOk

\* C3: when a manual rotate ends with the right-button-up, controls.enabled
\* equals the value it had immediately before the right-button-down that
\* started the rotate, whatever was delivered in between.
C3_RotateEndRestoresEnabled ==
  [][(st._rotateActive /\ ~st'._rotateActive)
       => (/\ IsSome(gh.rotEnabledBefore)
           /\ st'.controls_enabled = Val(gh.rotEnabledBefore))]_vars

\* C4: the click suppression of a manual rotate covers that interaction
\* only: the release that ends the rotate emits nothing, and the first plain
\* right click (no modifier, no drag) after the rotate emits MoveSelectedTo.
C4_SuppressionCoversRotateOnly ==
  /\ gh.rotateEndedNow => gh.rmbEmits = 0
  /\ (gh.rmb = "released" /\ gh.rmbWasPlain /\ gh.afterRotate /\ ~gh.rmbDrag)
       => gh.rmbEmits > 0

\* C5: no step starts a selection (isSelecting becomes true) from a state in
\* which a manual rotate is pending or active (_rotateActive).
C5_NoSelectionStartWhileRotating ==
  [][~(st._rotateActive /\ ~st.isSelecting /\ st'.isSelecting)]_vars

\* C6: a primary-button-down whose buttons bitmask holds another button
\* besides the primary one does not start a selection.
C6_ChordedDownStartsNoSelection ==
  gh.chordedDown => ~st.isSelecting

\* C7: when a selection ends, every unit's selected flag is exactly
\* (distance from the unit to the frozen center <= radius), boundary
\* included, whatever the flag was before.
C7_SelectionEndSetsFlagsByDistance ==
  gh.selEnded =>
    \A u \in UnitIds :
      st.selected[u] <=> distanceTo(UnitPos[u], st.selectCenter) <= st.selectRadius

\* C7 witness: a selection has just ended with a unit exactly on the boundary
\* of a sphere of positive radius selected, and a unit selected before and now
\* outside the sphere deselected
C7_Witness ==
  /\ gh.selEnded
  /\ st.selectRadius > 0
  /\ \E u \in UnitIds :
       st.selected[u] /\ distanceTo(UnitPos[u], st.selectCenter) = st.selectRadius
  /\ \E u \in UnitIds : gh.prevSelected[u] /\ ~st.selected[u]

C9_RadiusFollowsLiveCursor ==
  gh.cursorMoved =>
    st.selectRadius = distanceTo(CursorPoint(st), st.selectCenter)

\* C10: in every reachable state in which a selection is in progress,
\* controls.enabled is false.
C10_SelectingDisablesControls ==
  st.isSelecting => ~st.controls_enabled

\* C11: immediately after a mouseleave on the canvas no gesture is left
\* active: isSelecting, _rotateActive, _rmbDown, _isEdgeScrolling and
\* cameraInteracting are all false.
C11_MouseLeaveEndsEveryGesture ==
  gh.left => /\ ~st.isSelecting
             /\ ~st._rotateActive
             /\ ~st._rmbDown
             /\ ~st._isEdgeScrolling
             /\ ~st.cameraInteracting

\* C12: when a selection ends, controls.enabled equals the value it had
\* immediately before that selection started, and the sphere is hidden.
C12_SelectionEndRestoresEnabled ==
  [][(st.isSelecting /\ ~st'.isSelecting)
       => (/\ IsSome(gh.selEnabledBefore)
           /\ st'.controls_enabled = Val(gh.selEnabledBefore)
           /\ ~st'.sphereVisible)]_vars

\* C13: after the button-up that ends a right-button gesture (rotate, pan or
\* click), with no OrbitControls interaction of its own in progress,
\* cameraInteracting is false and _heightLock is null, also when pointer lock
\* was acquired or released between the button-down and the button-up.
C13_RightReleaseFreesCursor ==
  (gh.rmb = "released" /\ ~gh.orbit)
    => (~st.cameraInteracting /\ st._heightLock = None)

\* C14: height adjustment is applied in lockstep: in every reachable state
\* (orbit-target height - cursor height) has its initial value, 0.
C14_TargetHeightFollowsCursorHeight ==
  st.targetH - st.cursorHeight = 0

\* C15: the cursor height changes only through wheel events: in every
\* reachable state it is the initial height (0) plus the sum of the applied
\* deltas, whatever camera interaction, rotate, pan, selection or pointer
\* lock change was entered or left.
C15_HeightIsSumOfWheelDeltas ==
  st.cursorHeight = gh.heightSum

\* C15 witness: a tick has just run with the camera interacting and the
\* height locked, after wheel events raised the height above its initial value
C15_Witness ==
  /\ gh.last = "tick"
  /\ st.cameraInteracting
  /\ IsSome(st._heightLock)
  /\ st.cursorHeight > 0
  /\ st.pointerLocked

\* the parts of C16 that do not speak of retaking the snapshot: a mouse move
\* delivered while the camera is interacting leaves the cursor alone, and
\* after a tick with the camera interacting the cursor is camera + offset
HeldDuringGesture ==
  /\ (st.cameraInteracting /\ gh'.last = "mousemove") => st'.cursor = st.cursor
  /\ (gh'.last = "tick" /\ st'.cameraInteracting)
       => st'.cursor = <<st'.camera[1] + st'._cameraCursorOffset[1],
                         st'.camera[2] + st'._cameraCursorOffset[2]>>

C17_MissLeavesCursor ==
  [][(gh'.last = "mousemove" /\ gh'.hitNone)
       => (st'.cursor = st.cursor /\ st'.cursorHeight = st.cursorHeight)]_vars

\* C17 witness: a mouse move without a ground hit was handled outside any
\* camera interaction, with the cursor away from the origin
C17_Witness ==
  /\ gh.last = "mousemove"
  /\ gh.hitNone
  /\ ~st.cameraInteracting
  /\ st.cursor # <<0, 0>>

\* the direction is parallel to the plane y = 0: its vertical component is
\* closer to 0 than the tolerance
RayParallel == Abs(st.dir[2]) < Epsilon

\* the direction points away from the plane: the origin is off the plane and
\* the vertical component leads further off on the same side
RayPointsAway == st.origin[2] * st.dir[2] > 0

\* C18: raycastGroundPlane(origin, dir) returns none when the direction is
\* parallel to the plane y = 0 or points away from it, and otherwise returns
\* a point of height 0 that is origin + t * dir for some t >= 0; origin
\* (0,5,0) with direction (0,-1,0) gives (0,0,0), and with direction (0,1,0)
\* gives none.
C18_RaycastGroundPlane ==
  /\ (RayParallel \/ RayPointsAway) => st.hit = None
  /\ ~(RayParallel \/ RayPointsAway) =>
       /\ IsSome(st.hit)
       /\ Val(st.hit)[2] = <<0, 1>>
       /\ \E tn \in 0..RayMax, td \in {Abs(st.dir[2])} :
            \A i \in 1..3 :
              Val(st.hit)[i] = AddScaled(st.origin[i], st.dir[i], Frac(tn, td))
  /\ (st.origin = <<0, 5, 0>> /\ st.dir = <<0, 0 - DirOne, 0>>)
       => st.hit = Some(<<<<0, 1>>, <<0, 1>>, <<0, 1>>>>)
  /\ (st.origin = <<0, 5, 0>> /\ st.dir = <<0, DirOne, 0>>) => st.hit = None

\* C18 witness: a ray from above the plane, slanted downwards, hit the plane
\* away from the point below its origin
C18_Witness ==
  /\ st.origin[2] > 0
  /\ st.dir[1] # 0
  /\ st.dir[2] < 0
  /\ IsSome(st.hit)
  /\ Val(st.hit)[1] # <<st.origin[1], 1>>

\* C19 (as stated): during a manual rotate the pitch is strictly between eps
\* and pi - eps in every state of the gesture, whatever the camera pose at
\* its start and whatever the drags.
C19_PitchStrictlyInside ==
  st._rotateActive => (AngleEps < st.phi /\ st.phi < PiAngle - AngleEps)

\* C19 (amended): during a manual rotate the pitch is the camera's polar
\* angle, anywhere in [0, pi], until the first drag, and from the first drag
\* on it lies in the closed interval [eps, pi - eps], boundaries included.
C19_PitchClampedAfterFirstDrag ==
  st._rotateActive =>
    IF gh.dragged
    THEN AngleEps <= st.phi /\ st.phi <= PiAngle - AngleEps
    ELSE 0 <= st.phi /\ st.phi <= PiAngle

\* C19 witness: a drag of the running gesture has left the pitch on the
\* lower boundary
C19_Witness ==
  /\ st._rotateActive
  /\ gh.dragged
  /\ st.phi = AngleEps

\* the functions subscribed to a kind
SubscribedTo(type) ==
  IF type \in DOMAIN st.listeners THEN Range(st.listeners[type]) ELSE {}

\* how often an emission called fn with the emitted payload
CallsOf(em, fn) ==
  Cardinality({i \in 1..Len(em.calls) :
                 em.calls[i] = [fn |-> fn, arg |-> em.payload]})

\* the emission called exactly the subscribers of its kind, each once and
\* with the payload, and nothing else (so no function subscribed only to
\* another kind, and nothing at all for a kind without subscribers)
EmitCallsSubscribersOnce ==
  IsSome(st.emission) =>
    LET em == Val(st.emission)
    IN /\ \A fn \in Fns :
            CallsOf(em, fn) = IF fn \in SubscribedTo(em.type) THEN 1 ELSE 0
       /\ Len(em.calls) = Cardinality(SubscribedTo(em.type))

C21_MoveTouchesSelectedOnly ==
  [][gh'.last = "move" =>
       /\ \A u \in FleetIds :
            IF st.units[u].selected
            THEN /\ IsSome(st'.units[u].target)
                 /\ st'.units[u] = [st.units[u] EXCEPT !.target = st'.units[u].target]
            ELSE st'.units[u] = st.units[u]
       /\ (\A u \in FleetIds : ~st.units[u].selected) => st' = st
       /\ st'.obstacles = st.obstacles]_vars

\* C21 witness: a command has been handled with some units selected, which
\* hold a target, and a unit not selected, which holds none
C21_Witness ==
  /\ gh.last = "move"
  /\ \E u, v \in FleetIds :
       /\ st.units[u].selected /\ IsSome(st.units[u].target)
       /\ ~st.units[v].selected /\ st.units[v].target = None

\* C22: every steering target assigned by a MoveSelectedTo(target) has the
\* height of the commanded target, for all selected units and every
\* arrangement of obstacles.
C22_AssignedHeightIsCommanded ==
  gh.last = "move" =>
    \A u \in FleetIds :
      st.units[u].selected => Val(st.units[u].target)[2] = Val(gh.target)[2]

\* the distance from p to q is at least limit, up to the error of the grid
AtLeastApart(p, q, limit) ==
  LengthSq(VSub(p, q)) >= (limit - GridTol) * (limit - GridTol)

\* C24: after a MoveSelectedTo no assigned target is closer than
\* obstacle.radius + unit.radius + margin to the centre of any obstacle, and a
\* candidate exactly at an obstacle's centre is relocated to exactly that
\* distance from the centre.
C24_AssignedOutsideEveryObstacle ==
  gh.last = "move" =>
    \A u \in FleetIds :
      st.units[u].selected =>
        \A i \in 1..Len(st.obstacles) :
          AtLeastApart(Val(st.units[u].target), st.obstacles[i].position,
                       st.obstacles[i].radius + st.units[u].radius + ProjectMargin)

\* the squared length of a planar offset, and of the difference of two
OffsetLengthSq(a) == a[1] * a[1] + a[2] * a[2]
OffsetDistSq(a, b) == OffsetLengthSq(<<a[1] - b[1], a[2] - b[2]>>)

\* C23: for N selected units and minimum spacing S = max(1.2, 2 * average
\* radius + 0.4), no two of the N formation offsets are closer than S to each
\* other (up to the error of the grid), and the offset radius increases with
\* k, so that the k = 0 offset is the one nearest the origin.
C23_OffsetsKeepSpacing ==
  \A i, j \in 1..Len(st.offsets) :
    i < j =>
      /\ OffsetDistSq(st.offsets[i], st.offsets[j])
           >= (st.spacing - GridTol) * (st.spacing - GridTol)
      /\ OffsetLengthSq(st.offsets[i]) < OffsetLengthSq(st.offsets[j])

\* C25: a unit whose distance to its target is <= stopRadius at the start of
\* a tick has, after that tick, no target and velocity (0,0,0), and has not
\* been moved onto the target, whatever neighbours and obstacles there are.
C25_ArrivalStopsUnit ==
  (gh.last = "tick" /\ gh.arrived) =>
    /\ st.unit.target = None
    /\ st.unit.velocity = Zero3
    /\ (gh.from # Val(gh.goal) => st.unit.position # Val(gh.goal))

\* C26: for a unit at distance d > stopRadius from its target the desired
\* speed is maxSpeed * d / arriveRadius when d < arriveRadius and maxSpeed when
\* d >= arriveRadius (maxSpeed at d = arriveRadius, maxSpeed / 2 at
\* d = arriveRadius / 2), and the arrival steering is at most maxAccel long.
C26_ArrivalRampAndCap ==
  (gh.last = "tick" /\ gh.seeking) =>
    /\ gh.d < ArriveRadius =>
         /\ gh.desiredSpeed * ArriveRadius <= MaxSpeed * gh.d
         /\ MaxSpeed * gh.d < (gh.desiredSpeed + 1) * ArriveRadius
    /\ gh.d >= ArriveRadius => gh.desiredSpeed = MaxSpeed
    /\ 2 * gh.d = ArriveRadius => 2 * gh.desiredSpeed = MaxSpeed
    /\ LengthSq(gh.arriveSteer) <= (MaxAccel + GridTol) * (MaxAccel + GridTol)

\* C26 witness: a tick on the ramp whose arrival steering was cut down to
\* maxAccel
C26_Witness ==
  /\ gh.last = "tick"
  /\ gh.seeking
  /\ gh.d < ArriveRadius
  /\ gh.desiredSpeed < MaxSpeed
  /\ gh.capped

\* C27: after every steering tick the unit's speed is at most maxSpeed, for
\* any combination of arrival, separation and avoidance and any dt.
C27_SpeedWithinMaxSpeed ==
  gh.last = "tick" =>
    LengthSq(st.unit.velocity) <= (MaxSpeed + GridTol) * (MaxSpeed + GridTol)

\* C27 witness: a tick of a seeking unit with a neighbour in range and an
\* obstacle ahead, all three forces at work, integrated a speed above maxSpeed
C27_Witness ==
  /\ gh.last = "tick"
  /\ gh.clamped
  /\ gh.seeking
  /\ gh.pushed
  /\ gh.avoiding

\* C28: on every tick the frame delta passed to the systems' update is at
\* most 0.05 s and not negative, however long ago the previous tick ran,
\* the first tick after start() and after a stop()/start() pause included.
C28_FrameDeltaBounded ==
  gh.last = "tick" => (0 <= gh.dt /\ gh.dt <= MaxDelta)

\* the first tick after a stop()/start() pause, more than 0.05 s after the previous
\* tick and more than 0.05 s after start()
C28_Witness ==
  /\ gh.last = "tick"
  /\ gh.resumed
  /\ gh.sincePrev > MaxDelta
  /\ gh.dt = MaxDelta


\* C29: an input event between two ticks is only buffered: the units'
\* selected flags, the units' steering targets (set by the handler of the
\* move command the moment it is emitted) and the camera pose change only
\* in a step that is a tick.
C29_OnlyTicksApplyInput ==
  [][gh'.last # "tick" =>
       /\ st'.selected = st.selected
       /\ st'.emitted = <<>>
       /\ st'.camera = st.camera]_vars


\* the pointer is within the threshold of a screen edge (pixels in absolute
\* mode, NDC in pointer-locked mode)
AtScreenEdge(w) == edgeDirection(w) # <<0, 0>>

\* C30: in a tick (of non-zero frame delta) edge scrolling translates the
\* camera if and only if no other gesture is active (manual rotate,
\* right-button gesture, selection, orbit interaction) and the pointer is
\* within the threshold of a screen edge.
C30_EdgeScrollIffIdleAtEdge ==
  [][(gh'.last = "tick" /\ gh'.dt > 0) =>
       ((st'.camera # st.camera) <=>
          /\ ~st._rotateActive
          /\ ~st._rmbDown
          /\ ~st.isSelecting
          /\ ~st.cameraInteracting
          /\ AtScreenEdge(st))]_vars


\* squared distance between the pointer and the press position
DisplacementSq(g) ==
  (g.pos[1] - g.start[1]) * (g.pos[1] - g.start[1])
    + (g.pos[2] - g.start[2]) * (g.pos[2] - g.start[2])

\* C31: while the right button is down, the gesture is a drag once the
\* movement deltas summed since the press exceed the threshold (pointer-
\* locked mode, however the movement is split over move events) or once
\* the pointer is further than the threshold from the press position
\* (absolute mode), and a classified drag stays one until the release.
C31_DragOnceBeyondThreshold ==
  gh.pressed =>
    /\ (st.pointerLocked /\ gh.acc > DragThreshold) => st._rmbDragged
    /\ (~st.pointerLocked /\ DisplacementSq(gh) > DragThreshold * DragThreshold)
          => st._rmbDragged
    /\ ~gh.lost


\* C32: one right-button click, its release delivered to every registered
\* listener (pointerup on the canvas and on the document, then mouseup),
\* emits MoveSelectedTo at most once, in absolute and in pointer-locked mode.
C32_ClickEmitsAtMostOnce ==
  gh.rmb = "released" => gh.rmbEmits <= 1


\* C33: an edge-scroll step and a pointer-locked pan step move the camera
\* and the look-at target by one vector without vertical component: the
\* camera height, the target height and the camera-to-target offset are
\* those from before the step; with the camera looking straight down the
\* step is no translation.
C33_StepIsHorizontalTranslation ==
  gh.last \in {"edge", "pan"} =>
    /\ gh.move[2] = 0
    /\ st.camera[2] = gh.camera[2]
    /\ st.target[2] = gh.target[2]
    /\ VSub(st.camera, st.target) = VSub(gh.camera, gh.target)
    /\ VSub(st.camera, gh.camera) = VSub(st.target, gh.target)
    /\ (st.camDir[1] = 0 /\ st.camDir[3] = 0) => gh.move = Zero3

\* an edge-scroll step of a tilted camera that moved it, after a pan step
\* that moved it
C33_Witness ==
  /\ gh.last = "edge"
  /\ gh.panned
  /\ st.camDir[2] # 0
  /\ gh.move # Zero3


\* C34: every other unit closer than 1.2 * (sum of the radii), one at the
\* unit's own position included, contributes to the separation force; the
\* force is at most maxAccel and is weighted 0.9 for a unit with a target
\* and 0.6 for one without.
C34_EveryCloseNeighbourRepels ==
  gh.last = "separation" =>
    /\ st.count = withinDesired(st.unit, st.neighbors)
    /\ LengthSq(st.sep) <= (MaxAccel + GridTol) * (MaxAccel + GridTol)
    /\ st.weighted = VScale(st.sep, IF IsSome(st.unit.target) THEN 9 ELSE 6, 10)


\* the direction the unit probes: its velocity, or the direction of its
\* target when it stands still; <<>> when it has neither
ProbeForward(u) ==
  LET f == IF LengthSq(u.velocity) = 0 /\ IsSome(u.target)
           THEN VSub(Val(u.target), u.position) ELSE u.velocity
  IN IF LengthSq(f) = 0 THEN None ELSE Some(ScaleTo(f, One))

\* the length of the probe segment
ProbeLength(u) ==
  LET ahead == (ISqrt(LengthSq(u.velocity)) * 12) \div 10 + MaxSpeed \div 4
  IN IF ahead > MinLookDist THEN ahead ELSE MinLookDist

\* the obstacle of least clearance among those whose expanded radius
\* meets the probe segment; <<>> when there is none
ProbeThreat(u, obstacles) ==
  IF ProbeForward(u) = None THEN None
  ELSE mostThreat(u, Val(ProbeForward(u)), ProbeLength(u), obstacles, None)

\* clamp(penetration / expandedRadius, 0.1, 1.0) * maxAvoidForce
ThreatStrength(u, threat) ==
  LET expanded == threat.ob.radius + u.radius + AvoidMargin
      minDist == ISqrt(threat.d2)
      penetration == IF expanded > minDist THEN expanded - minDist ELSE 0
  IN (Clamp((penetration * One) \div expanded, 100, One) * MaxAvoidForce) \div One

\* C35: when the expanded radius of some obstacle meets the forward probe
\* segment, the avoidance force has magnitude clamp(penetration /
\* expandedRadius, 0.1, 1.0) * maxAvoidForce of the obstacle of least
\* clearance, hence at least 0.1 * maxAvoidForce, and no component along
\* the forward direction; otherwise the force is zero.
C35_AvoidanceWhenProbeHits ==
  gh.last = "avoid" =>
    LET threat == ProbeThreat(st.unit, st.obstacles)
    IN IF threat = None THEN st.avoid = Zero3
       ELSE LET strength == ThreatStrength(st.unit, Val(threat))
                along == Trunc(Dot(st.avoid, Val(ProbeForward(st.unit))), One)
            IN /\ LengthSq(st.avoid) >= (strength - GridTol) * (strength - GridTol)
               /\ LengthSq(st.avoid) <= (strength + GridTol) * (strength + GridTol)
               /\ 10 * strength >= MaxAvoidForce
               /\ along * along <= 4 * GridTol * GridTol


\* C36: for every interleaving of start() and stop(), calls made by a
\* system during a tick included, at most one frame callback is pending,
\* and none is pending while the engine is stopped (no tick runs after
\* stop() until the next start()).
C36_AtMostOneFramePending ==
  /\ Cardinality(st.pending) <= 1
  /\ ~st.running => st.pending = {}


\* the number of calls of fn in the emission
TimesCalled(calls, fn) == Cardinality({i \in 1..Len(calls) : calls[i] = fn})

\* C37: an emission invokes the subscribers that were subscribed to the
\* kind when emit was called: one added by a running subscriber is not
\* invoked in that emission, one removed by an earlier-invoked subscriber
\* is not invoked later in it, and when no subscriber changes the
\* subscriptions each of them is invoked exactly once.
C37_EmissionServesSubscribersAtEmit ==
  gh.last = "end" =>
    /\ Range(st.calls) \subseteq st.atEmit
    /\ ~gh.late
    /\ (gh.added = {} /\ gh.removed = {}) =>
          \A fn \in Fns :
            TimesCalled(st.calls, fn) = (IF fn \in st.atEmit THEN 1 ELSE 0)


\* C38: in every reachable state cameraInteracting is true exactly when
\* _heightLock is not null, and a height lock that is not null equals
\* cursorHeight; for every interleaving of orbit start/end, manual rotate,
\* pointer-locked pan, wheel events and ticks.
C38_HeightLockFollowsInteraction ==
  /\ st.cameraInteracting <=> IsSome(st._heightLock)
  /\ IsSome(st._heightLock) => Val(st._heightLock) = st.cursorHeight

\* a wheel event has just changed the height while the camera was
\* interacting with the height locked
C38_Witness ==
  /\ gh.last = "wheel"
  /\ st.cameraInteracting
  /\ IsSome(st._heightLock)
  /\ st.cursorHeight # 0


\* ---- UnitManager.update: one steering tick of the whole registry ----

MaxRounds == 2
RegistryIds == 1..3

\* `neighbors = arr`: every unit of the registry as unit i sees it now; the
\* unit itself is skipped by `n === self`
neighborsOf(units, i) ==
  LET others == SelectSeq([j \in RegistryIds |-> j], LAMBDA j : j # i)
  IN [k \in 1..Len(others) |->
        Sphere(units[others[k]].position, units[others[k]].radius)]

\* the loop of update(dt), visiting the registry in the given order: each
\* unit is updated in place before the next one is visited
RECURSIVE updateInOrder(_, _, _)
updateInOrder(units, dt, order) ==
  IF order = <<>> THEN units
  ELSE LET i == Head(order)
       IN updateInOrder(
            [units EXCEPT ![i] = unitUpdate(units[i], dt, neighborsOf(units, i), <<>>)],
            dt, Tail(order))

\* UnitManager.update(dt)
managerUpdate(units, dt) == updateInOrder(units, dt, [i \in RegistryIds |-> i])

\* the tick in which every unit steers by the registry as it was at the start
updateFromStart(units, dt) ==
  [i \in RegistryIds |-> unitUpdate(units[i], dt, neighborsOf(units, i), <<>>)]

RegistrySpots == {<<100, 0, 0>>, <<400, 0, 0>>}
RegistryVelocities == {Zero3, <<1000, 0, 0>>}
RegistryTargets == {None, Some(<<900, 0, 0>>)}

RegistryUnit(pos, vel, target) ==
  [position |-> pos, velocity |-> vel, target |-> target, radius |-> DefaultRadius]

InitOrder ==
  /\ \E spot \in RegistrySpots, vel \in RegistryVelocities, target \in RegistryTargets :
       st = [units |-> << RegistryUnit(Zero3, vel, target),
                          RegistryUnit(spot, Zero3, None),
                          RegistryUnit(<<0, 0, 900>>, Zero3, None) >>]
  /\ gh = [last |-> "none", rounds |-> 0, before |-> <<>>, dt |-> 0]

\* commandBus MOVE_SELECTED_TO reaching one unit: a new steering target
Retarget ==
  /\ gh.last # "target"
  /\ \E i \in RegistryIds, target \in RegistryTargets :
       st' = [st EXCEPT !.units[i].target = target]
  /\ gh' = [gh EXCEPT !.last = "target"]

\* engine tick -> UnitManager.update(dt)
ManagerTick ==
  /\ gh.rounds < MaxRounds
  /\ \E dt \in {16, 50} :
       /\ st' = [st EXCEPT !.units = managerUpdate(st.units, dt)]
       /\ gh' = [last |-> "tick", rounds |-> gh.rounds + 1,
                 before |-> st.units, dt |-> dt]

NextOrder == Retarget \/ ManagerTick

SpecOrder == InitOrder /\ [][NextOrder]_vars

\* the orders in which the registry can be visited
RegistryOrders ==
  {o \in [RegistryIds -> RegistryIds] : \A i, j \in RegistryIds : i # j => o[i] # o[j]}

\* some unit of the registry is nearer to another than their desired gap
Crowded(units) ==
  \E i, j \in RegistryIds :
    /\ i # j
    /\ LengthSq(VSub(units[i].position, units[j].position))
         < ((12 * (units[i].radius + units[j].radius)) \div 10) ^ 2

\* C40: after a steering tick the registry is what the tick computed from
\* the positions and velocities of all units at its start, and it is the
\* same for every order in which the registry is visited.
C40_TickIsOrderIndependent ==
  gh.last = "tick" =>
    /\ st.units = updateFromStart(gh.before, gh.dt)
    /\ \A o \in RegistryOrders : st.units = updateInOrder(gh.before, gh.dt, o)

\* C40, the part the code delivers: a tick over a registry in which no two
\* units are nearer than their desired gap, before the tick and after it,
\* is the tick computed from the start and does not depend on the order
C40_SpacedTickIsOrderIndependent ==
  (gh.last = "tick" /\ ~Crowded(gh.before) /\ ~Crowded(st.units)) =>
    /\ st.units = updateFromStart(gh.before, gh.dt)
    /\ \A o \in RegistryOrders : st.units = updateInOrder(gh.before, gh.dt, o)

\* the fleet of the UnitManager whose units carry the selected flags of w
FlagFleet(w) ==
  [units |-> [i \in FleetIds |->
                [FleetUnit(<<100 * i, 0, 0>>) EXCEPT
                   !.selected = \E u \in UnitIds : w.selected[u] /\ (i = 1 <=> u = "u1")]],
   obstacles |-> <<>>]

\* the selected flags of a fleet
flagsOf(units) == [i \in FleetIds |-> units[i].selected]

\* C39: the selected flags change only in a step that ends a selection
\* gesture; every other event (camera gestures, wheel, releases that end no
\* selection, a mouseleave with no selection in progress, ticks) leaves them
\* unchanged, and neither the MoveSelectedTo listener nor the steering tick
\* of a unit writes a flag.
C39_FlagsChangeOnlyAtSelectionEnd ==
  /\ [][st'.selected # st.selected => (st.isSelecting /\ ~st'.isSelecting)]_vars
  /\ [](LET f == FlagFleet(st)
        IN /\ \A target \in CommandTargets :
                flagsOf(moveSelectedTo(f, target).units) = flagsOf(f.units)
           /\ \A i \in FleetIds, dt \in SteerDts :
                unitUpdate(f.units[i], dt, <<>>, <<>>).selected = f.units[i].selected)

\* C39 witness: with a unit selected and no selection in progress, the
\* release of a right click has issued a MoveSelectedTo command
C39_Witness ==
  /\ gh.last = "mouseup" /\ Len(st.emitted) > 0
  /\ ~st.isSelecting
  /\ \E u \in UnitIds : st.selected[u]

====
